---- MODULE Spec2Model ----
(***************************************************************************)
(* Realtime-audio chat samples: the vanilla web sample (main.ts), the      *)
(* React sample (chat-interface.tsx) and the middle-tier generic frontend. *)
(* Each sample is a state machine driven by UI events, promise             *)
(* resolutions and inbound frames; JavaScript runs every handler to its    *)
(* next await without interruption, so one action is one such run.         *)
(***************************************************************************)
EXTENDS Integers, Sequences, FiniteSets, TLC

\* ---- bounds of the model ------------------------------------------------
\* transport clients constructed in one run
MaxClients == 2
\* inbound frames delivered in one run
MaxFrames == 3
\* how many of the latest inbound frames the history keeps
Window == 2
\* calls of one operation suspended at the same await
MaxPending == 1
\* handleAudioRecord calls of the generic frontend that wait for the
\* microphone at the same time (the record button stays enabled meanwhile)
MaxStarts == 2
\* websocket sessions the generic frontend opens in one run
MaxSessions == 1
MaxLoops == 2
\* disconnect() calls of the React sample suspended in close() at a time
MaxToggles == 2
\* sendMessage calls of the React sample in one run
MaxSends == 2
\* text messages sent and files uploaded in one run of the generic frontend
MaxInputs == 2
\* Calls of the web sample's recorder callback in a behaviour.
MaxData == 4
\* Events in a Phi-3 response.
MaxEvents == 2
\* Chunks played and clock steps of the player in a behaviour.
MaxChunks == 3
MaxSteps == 4

\* ---- shared state -------------------------------------------------------
VARIABLES
    clients,            \* transport client id -> "unborn" | "connecting" | "open" | "failed" | "closed"
    loop,               \* client id -> receive loop over its messages(): "none" | "waiting" | "done" | "crashed"
    sent,               \* outbound frames accepted by a transport, in send order
    nFrames,            \* number of inbound frames delivered so far
    handled,            \* web sample: the latest inbound frames delivered, oldest first (history)
    errors,             \* errors raised and caught by nobody
    realtimeStreaming,  \* the transport handle (0 = unset / null)
    sawFunctionCall,    \* pending-function-call flag
    playQueue           \* frames' audio chunks queued in the player, by arrival index

\* ---- web sample (main.ts) -----------------------------------------------
VARIABLES
    inputState,         \* InputState of the form
    recordingActive,
    audioRecorder,      \* "undefined" | "idle" | "capturing"
    audioPlayer,        \* "undefined" | "initialising" | "ready"
    micPending,         \* resetAudio(true) calls suspended in getUserMedia
    fcTasks,            \* handleFunctionCall calls suspended in the tool invocation
    children,           \* formReceivedTextContainer.children
    latestInputSpeechBlock, \* 0 = undefined, k = children[k]
    buffer,             \* the capture buffer: its bytes as spans, oldest first; a span
                        \* is n bytes captured while the handle was client "of"
    nData,              \* calls of processAudioRecordingBuffer so far
    captured            \* bytes the recorder has handed to its callback so far (history)

\* ---- Player (audio playback library of the samples) -----------------------
VARIABLES
    currentTime,        \* the output device's clock, in samples played
    nextStartTime,      \* the end time of the chunk scheduled last
    scheduled           \* the chunks scheduled since the last clear(), in play order

\* ---- generic frontend: the Phi-3 stream of one sendMessage call -----------
VARIABLES
    events,             \* the events of the response: each the payloads of its data: lines
    unread,             \* the text of the response that the reader has not returned yet
    streamBuffer,       \* buffer: text read and not yet split off as a whole event
    firstChunk,
    msgContent,         \* assistantMsg.content
    shown,              \* the content of the assistant message as displayed last
    phase               \* "none" | "reading" | "ended"

\* ---- React sample: text messages -------------------------------------------
VARIABLES
    currentMessage,     \* the text of the input field, its characters in order
    sendStage           \* sendMessage calls suspended in their first and second send

\* ---- web sample: the settings form -----------------------------------------
VARIABLES
    form                \* the Azure toggle and the trimmed values of the fields

\* ---- React sample and generic frontend: component state ------------------
VARIABLES
    isConnected,
    isConnecting,
    isRecording,
    messages            \* the displayed conversation messages

\* ---- React sample (chat-interface.tsx) -----------------------------------
VARIABLES
    mounted,            \* the component is mounted (its buttons can be clicked)
    attempts,           \* clients whose handleConnect is suspended in the config send
    disconnecting,      \* disconnect() calls suspended in close()
    audioHandlerRef,    \* "null" | "ready"
    initPending,        \* the mount effect's initAudioHandler is suspended in initialize()
    replacedChunks,     \* chunks at the head of playQueue that a replaced audio handler holds
    playbackActive,
    recorderOn,         \* the current AudioHandler is capturing
    recStarting,        \* toggleRecording calls suspended in startRecording
    lastOp,             \* what ran last (history): "disconnect" when handleConnect called
                        \* disconnect(), "disconnect()" when a disconnect() call returned,
                        \* "speech_started" when a speech-started frame was handled,
                        \* "startFailed" when toggleRecording caught a failed start,
                        \* "other" otherwise
    consecDisc,         \* disconnect() calls completed since the last connect (history, up to 2)
    callPending         \* a function_call item was handled and no response.done frame
                        \* since (history)

\* ---- generic frontend (markdown.tsx, ChatInterface) -----------------------
VARIABLES
    webSocketClient,    \* the transport handle (0 = null)
    selectedModel,      \* "azure" | "phi3"
    messageMap,         \* Map id -> Message, as the sequence of its values in insertion order
    currentConnectingMessage,   \* id of the referenced message, <<>> = undefined
    currentUserMessage, \* id of the referenced message, <<>> = undefined
    audioPlayerRef,     \* "null" | "ready"
    audioRecorderRef,   \* "null" | "idle" | "capturing"
    starting,           \* receiveLoop calls suspended in initAudioPlayer
    receivers,          \* client id -> receive loops iterating its frames
    crashed,            \* clients a receive loop of which died of an exception
    discStage,          \* await of disconnect() -> number of calls suspended there
    recPending,         \* handleAudioRecord calls suspended in getUserMedia / start
    stopPending,        \* toggleRecording calls suspended in Recorder.stop
    randoms,            \* Math.random() values drawn so far
    expected,           \* server id -> deltas that arrived for it since the map was last
                        \* cleared, concatenated in arrival order (history)
    nInputs,            \* text messages sent and files uploaded so far
    fetching,           \* the fetch calls of sendMessage and handleFileUpload that are
                        \* pending
    dateNow             \* the millisecond Date.now() returned last

commonVars == <<clients, loop, sent, nFrames, handled, errors, realtimeStreaming,
                sawFunctionCall, playQueue>>
webVars == <<inputState, recordingActive, audioRecorder, audioPlayer, micPending, fcTasks,
             children, latestInputSpeechBlock, buffer, nData, captured>>
uiVars == <<isConnected, isConnecting, isRecording, messages>>
reactVars == <<mounted, attempts, disconnecting, audioHandlerRef, initPending, replacedChunks,
               playbackActive, recorderOn, recStarting, lastOp, consecDisc, callPending>>
genericVars == <<webSocketClient, selectedModel, messageMap, currentConnectingMessage,
                 currentUserMessage, audioPlayerRef, audioRecorderRef, starting, receivers,
                 crashed, discStage, recPending, stopPending, randoms, expected, nInputs,
                 fetching, dateNow>>
captureVars == <<buffer, nData, captured>>
playerVars == <<currentTime, nextStartTime, scheduled>>
streamVars == <<events, unread, streamBuffer, firstChunk, msgContent, shown, phase>>
\* The state of the parts that are modelled by themselves.
sendVars == <<currentMessage, sendStage>>
formVars == <<form>>
apartVars == <<playerVars, streamVars, sendVars, formVars>>
\* What the session handlers of the web sample leave alone: the other
\* samples' state, the capture buffer and the parts modelled by themselves.
notWebVars == <<uiVars, reactVars, genericVars, captureVars, apartVars>>
vars == <<commonVars, webVars, uiVars, reactVars, genericVars, captureVars, apartVars>>

ClientIds == 1..MaxClients
NULL == 0

Deltas == {"a", "b"}

\* The inbound frame types the realtime samples switch on, and one they do
\* not know.
FrameTypes == {
    "session.created",
    "response.audio_transcript.delta",
    "response.audio_transcript.done",
    "response.audio.delta",
    "response.audio.done",
    "input_audio_buffer.speech_started",
    "conversation.item.input_audio_transcription.completed",
    "response.done",
    "response.output_item.done",
    "rate_limits.updated" }

\* The web sample has no case for the two done frames: they take its default
\* branch like any unknown type. The transcript done frame is kept, as the
\* frame that ends the message the transcript deltas build; "rate_limits.updated"
\* stands for the audio done frame.
WebFrameTypes == FrameTypes \ {"response.audio.done"}

\* arg: the delta of a transcript delta, the item kind of an output item
\* ("function_call", "function_call_badargs" when its arguments are no JSON,
\* "message"), "" otherwise.
FrameArgs(t) ==
    CASE t = "response.audio_transcript.delta" -> Deltas
      [] t = "response.output_item.done" -> {"function_call", "function_call_badargs", "message"}
      [] OTHER -> {""}

FramesOf(types) == UNION { { [type |-> t, arg |-> a] : a \in FrameArgs(t) } : t \in types }

\* The web sample appends every delta to the same place, whatever it is: one
\* delta value shows all it does.
WebFrames == { f \in FramesOf(WebFrameTypes) : f.arg # "b" }

\* The awaits of the generic frontend's disconnect(): toggleRecording() when
\* it stops the recorder and when it does nothing, the player's clear(), the
\* transport's close().
DiscStages == {"toggle", "toggleNoop", "clear", "close"}

\* The message ids the server uses in its text_delta frames.
ServerIds == {<<"m", 1>>, <<"m", 2>>}

OutFrame(c, t) == [to |-> c, type |-> t]

\* LowLevelRTClient.send: the frame goes out when the channel is open, and
\* the call fails with a SendError otherwise.
send(c, t) ==
    IF c # NULL /\ clients[c] = "open"
    THEN /\ sent' = Append(sent, OutFrame(c, t))
         /\ errors' = errors
    ELSE /\ sent' = sent
         /\ errors' = errors \cup {"SendError"}

\* The history with frame f delivered: the latest Window frames.
Delivered(f) ==
    LET h == Append(handled, f)
    IN IF Len(h) > Window THEN SubSeq(h, Len(h) - Window + 1, Len(h)) ELSE h

\* Audio playback: play enqueues a chunk behind the queued ones, clear drops
\* whatever is queued.
play(queue, chunk) == Append(queue, chunk)
clear(queue) == <<>>

\* The client the next new LowLevelRTClient / WebSocketClient constructs, NULL
\* when MaxClients have been constructed.
FreshClient ==
    IF \E c \in ClientIds : clients[c] = "unborn"
    THEN CHOOSE c \in ClientIds :
             clients[c] = "unborn" /\ \A d \in ClientIds : clients[d] = "unborn" => c <= d
    ELSE NULL

\* ---- web sample: DOM helpers --------------------------------------------
P(text) == [tag |-> "p", text |-> text]
HR == [tag |-> "hr", text |-> <<>>]

\* makeNewTextBlock(text): a new <p> appended to the container.
makeNewTextBlock(kids, text) == Append(kids, P(text))

\* appendToTextBlock(text): the text goes to the LAST child of the container,
\* whatever element that is; an empty container first gets an empty <p>.
appendToTextBlock(kids, text) ==
    LET ks == IF Len(kids) = 0 THEN makeNewTextBlock(kids, <<>>) ELSE kids
        n == Len(ks)
    IN [ks EXCEPT ![n].text = Append(@, text)]

\* ---- web sample: audio --------------------------------------------------
\* resetAudio(startRecording) up to its await: the old recorder is stopped and
\* the old player cleared, both are replaced, and with startRecording the call
\* suspends in getUserMedia.
resetAudio(startRecording) ==
    /\ recordingActive' = FALSE
    /\ audioRecorder' = "idle"
    /\ audioPlayer' = "initialising"
    /\ playQueue' = <<>>
    /\ micPending' = IF startRecording THEN micPending + 1 ELSE micPending

\* The init(24000) that resetAudio called on the player and did not await has
\* completed. No handler of main.ts awaits or reads that, so the step is part
\* of SpecPlayback only.
PlayerReady ==
    /\ audioPlayer = "initialising"
    /\ audioPlayer' = "ready"
    /\ UNCHANGED <<commonVars, inputState, recordingActive, audioRecorder, micPending, fcTasks,
                   children, latestInputSpeechBlock>>
    /\ UNCHANGED notWebVars

\* resetAudio(true) resumed: getUserMedia resolved.
MicGranted ==
    /\ micPending > 0
    /\ micPending' = micPending - 1
    /\ audioRecorder' = "capturing"
    /\ recordingActive' = TRUE
    /\ UNCHANGED <<clients, loop, sent, nFrames, handled, errors, realtimeStreaming,
                   sawFunctionCall,
                   playQueue, inputState, audioPlayer, fcTasks, children, latestInputSpeechBlock>>
    /\ UNCHANGED notWebVars

\* resetAudio(true) resumed: getUserMedia rejected; nobody catches it.
MicDenied ==
    /\ micPending > 0
    /\ micPending' = micPending - 1
    /\ errors' = errors \cup {"DeviceError"}
    /\ UNCHANGED <<clients, loop, sent, nFrames, handled, realtimeStreaming, sawFunctionCall,
                   playQueue,
                   inputState, recordingActive, audioRecorder, audioPlayer, fcTasks, children,
                   latestInputSpeechBlock>>
    /\ UNCHANGED notWebVars

\* ---- web sample: capture path ---------------------------------------------
\* The size of an input_audio_buffer.append frame's audio.
ChunkBytes == 4800

\* The sizes of the data the recorder hands to its callback: less than a
\* chunk, a chunk, more than a chunk.
DataSizes == {1600, 4800, 6400}

\* buffer.length
RECURSIVE length(_)
length(b) == IF b = <<>> THEN 0 ELSE Head(b).n + length(Tail(b))

\* b.slice(start, end): the bytes of b from index start up to index end.
RECURSIVE slice(_, _, _)
slice(b, start, end) ==
    IF b = <<>> \/ end <= 0
    THEN <<>>
    ELSE LET h == Head(b)
             lo == IF start > 0 THEN start ELSE 0
             hi == IF end < h.n THEN end ELSE h.n
             rest == slice(Tail(b), start - h.n, end - h.n)
         IN IF hi > lo THEN <<[h EXCEPT !.n = hi - lo]>> \o rest ELSE rest

\* combineArray(newData): the new bytes go behind the buffered ones.
combineArray(b, newData) ==
    IF b # <<>> /\ b[Len(b)].of = newData.of
    THEN [b EXCEPT ![Len(b)].n = @ + newData.n]
    ELSE Append(b, newData)

AppendFrame(c, audio) == [to |-> c, type |-> "input_audio_buffer.append", audio |-> audio]

\* (mutant) whatever has accumulated is sent, short of a chunk or not
processAudioRecordingBuffer_sendsAny(data) ==
    LET combined == combineArray(buffer, data)
    IN /\ buffer' = <<>>
       /\ IF recordingActive
          THEN IF realtimeStreaming # NULL /\ clients[realtimeStreaming] = "open"
               THEN /\ sent' = Append(sent, AppendFrame(realtimeStreaming, combined))
                    /\ errors' = errors
               ELSE /\ sent' = sent
                    /\ errors' = errors \cup {"SendError"}
          ELSE UNCHANGED <<sent, errors>>

\* processAudioRecordingBuffer(data): the data is combined with the buffer;
\* with a chunk or more buffered, the first chunk is cut off and, when
\* recording is active, sent (send is not awaited: its failure is caught by
\* nobody).
processAudioRecordingBuffer(data) ==
    LET combined == combineArray(buffer, data)
    IN IF length(combined) >= ChunkBytes
       THEN LET toSend == slice(combined, 0, ChunkBytes)
            IN /\ buffer' = slice(combined, ChunkBytes, length(combined))
               /\ IF recordingActive
                  THEN IF realtimeStreaming # NULL /\ clients[realtimeStreaming] = "open"
                       THEN /\ sent' = Append(sent, AppendFrame(realtimeStreaming, toSend))
                            /\ errors' = errors
                       ELSE /\ sent' = sent
                            /\ errors' = errors \cup {"SendError"}
                  ELSE UNCHANGED <<sent, errors>>
       ELSE /\ buffer' = combined
            /\ UNCHANGED <<sent, errors>>

\* The recorder, started, hands captured data to its callback.
RecorderData ==
    /\ audioRecorder = "capturing"
    /\ nData < MaxData
    /\ nData' = nData + 1
    /\ \E size \in DataSizes :
         /\ processAudioRecordingBuffer([of |-> realtimeStreaming, n |-> size])
         /\ captured' = captured + size
    /\ UNCHANGED <<clients, loop, nFrames, handled, realtimeStreaming, sawFunctionCall, playQueue,
                   inputState, recordingActive, audioRecorder, audioPlayer, micPending, fcTasks,
                   children, latestInputSpeechBlock, uiVars, reactVars, genericVars,
                   apartVars>>

\* ---- Player: scheduling of the chunks -------------------------------------
\* The rate the samples init the player with.
SampleRate == 24000

\* The sizes in bytes of the PCM16 chunks played, and the steps of the
\* device's clock in samples.
ChunkSizes == {2400, 4800}
ClockSteps == {600, 2400}

\* new Int16Array(bytes.buffer): two bytes make a sample.
Samples(bytes) == bytes \div 2

\* The time that a number of samples take, in milliseconds.
Millis(samples) == (samples * 1000) \div SampleRate

\* (mutant) every chunk starts now
StartTime_now == currentTime

\* The start time of the chunk played next: the end time of the chunk before
\* it, or now when the queue is empty.
StartTime == IF nextStartTime > currentTime THEN nextStartTime ELSE currentTime

\* play(pcmChunk): the chunk is scheduled behind the chunks queued.
PlayerPlay ==
    /\ Len(scheduled) < MaxChunks
    /\ \E bytes \in ChunkSizes :
         LET chunk == [bytes |-> bytes, at |-> currentTime, start |-> StartTime,
                       end |-> StartTime + Samples(bytes)]
         IN /\ scheduled' = Append(scheduled, chunk)
            /\ nextStartTime' = chunk.end
    /\ UNCHANGED <<commonVars, inputState, recordingActive, audioRecorder, audioPlayer,
                   micPending, fcTasks, children, latestInputSpeechBlock, uiVars, reactVars,
                   genericVars, captureVars, streamVars, sendVars, formVars, currentTime>>

\* clear(): what is queued is dropped.
PlayerClear ==
    /\ scheduled # <<>>
    /\ scheduled' = <<>>
    /\ nextStartTime' = 0
    /\ UNCHANGED <<commonVars, inputState, recordingActive, audioRecorder, audioPlayer,
                   micPending, fcTasks, children, latestInputSpeechBlock, uiVars, reactVars,
                   genericVars, captureVars, streamVars, sendVars, formVars, currentTime>>

\* The device plays on.
PlayerClock ==
    /\ \E step \in ClockSteps :
         /\ currentTime + step <= MaxSteps * 2400
         /\ currentTime' = currentTime + step
    /\ UNCHANGED <<commonVars, inputState, recordingActive, audioRecorder, audioPlayer,
                   micPending, fcTasks, children, latestInputSpeechBlock, uiVars, reactVars,
                   genericVars, captureVars, streamVars, sendVars, formVars, nextStartTime, scheduled>>

\* ---- web sample: start and stop -----------------------------------------
InputState == {"Working", "ReadyToStart", "ReadyToStop"}

\* What the user typed: the endpoint is empty, no URL, or a URL.
Endpoints == {"", "not a url", "wss://host"}
Texts == {"", "x"}

\* The start handler's validation (main.ts:344-357): TRUE when it alerts and returns.
StartRejects(azure, endpoint, key, deploymentOrModel) ==
    \/ azure /\ endpoint = "" /\ deploymentOrModel = ""
    \/ ~azure /\ deploymentOrModel = ""
    \/ key = ""

\* new URL(endpoint) throws on anything that is no URL.
URLThrows(endpoint) == endpoint # "wss://host"

\* The start button's click handler with start_realtime up to its first await,
\* with these values of the form.
start(azure, endpoint, key, deploymentOrModel) ==
    IF StartRejects(azure, endpoint, key, deploymentOrModel)
    THEN UNCHANGED <<clients, realtimeStreaming, errors>>
    ELSE IF azure /\ URLThrows(endpoint)
    THEN /\ errors' = errors \cup {"TypeError: Invalid URL"}
         /\ UNCHANGED <<clients, realtimeStreaming>>
    ELSE /\ FreshClient # NULL
         /\ clients' = [clients EXCEPT ![FreshClient] = "connecting"]
         /\ realtimeStreaming' = FreshClient
         /\ errors' = errors

StartClick ==
    /\ inputState = "ReadyToStart"
    /\ inputState' = "Working"
    /\ \E azure \in BOOLEAN, endpoint \in Endpoints, key \in Texts, deploymentOrModel \in Texts :
         start(azure, endpoint, key, deploymentOrModel)
    /\ UNCHANGED <<loop, sent, nFrames, handled, sawFunctionCall, playQueue, recordingActive,
                   audioRecorder,
                   audioPlayer, micPending, fcTasks, children, latestInputSpeechBlock>>
    /\ UNCHANGED notWebVars

\* The start button's click handler reading the form.
FormStartClick ==
    /\ inputState = "ReadyToStart"
    /\ inputState' = "Working"
    /\ start(form.azure, form.endpoint, form.key, form.deploymentOrModel)
    /\ UNCHANGED <<loop, sent, nFrames, handled, sawFunctionCall, playQueue, recordingActive,
                   audioRecorder,
                   audioPlayer, micPending, fcTasks, children, latestInputSpeechBlock>>
    /\ UNCHANGED notWebVars

\* The user fills in the form: the fields and the toggle are enabled in the
\* ReadyToStart state only (setFormInputState).
FormChange ==
    /\ inputState = "ReadyToStart"
    /\ \E azure \in BOOLEAN, endpoint \in Endpoints, key \in Texts, deploymentOrModel \in Texts :
         /\ form' = [azure |-> azure, endpoint |-> endpoint, key |-> key,
                     deploymentOrModel |-> deploymentOrModel]
         /\ form' # form
    /\ UNCHANGED <<commonVars, webVars, uiVars, reactVars, genericVars, playerVars, streamVars,
                   sendVars>>

\* start_realtime resumed after the config message went out: resetAudio(true)
\* and handleRealtimeMessages() both run to their first await.
ConfigSent(c) ==
    /\ clients[c] = "connecting"
    /\ clients' = [clients EXCEPT ![c] = "open"]
    /\ sent' = Append(sent, OutFrame(c, "session.update"))
    /\ resetAudio(TRUE)
    /\ loop' = [loop EXCEPT ![realtimeStreaming] = "waiting"]
    /\ UNCHANGED <<nFrames, handled, errors, realtimeStreaming, sawFunctionCall, inputState,
                   fcTasks,
                   children, latestInputSpeechBlock>>
    /\ UNCHANGED notWebVars

\* start_realtime's catch: the config message could not be sent.
ConfigFailed(c) ==
    /\ clients[c] = "connecting"
    /\ clients' = [clients EXCEPT ![c] = "failed"]
    /\ children' = makeNewTextBlock(children, <<"[Connection error]">>)
    /\ inputState' = "ReadyToStart"
    /\ UNCHANGED <<loop, sent, nFrames, handled, errors, realtimeStreaming, sawFunctionCall,
                   playQueue,
                   recordingActive, audioRecorder, audioPlayer, micPending, fcTasks,
                   latestInputSpeechBlock>>
    /\ UNCHANGED notWebVars

\* LowLevelRTClient.close(): idempotent.
close(c) == [clients EXCEPT ![c] = IF @ \in {"open", "connecting"} THEN "closed" ELSE @]

\* The stop button's click handler.
StopClick ==
    /\ inputState = "ReadyToStop"
    /\ resetAudio(FALSE)
    /\ clients' = close(realtimeStreaming)
    /\ inputState' = "ReadyToStart"
    /\ UNCHANGED <<loop, sent, nFrames, handled, errors, realtimeStreaming, sawFunctionCall,
                   fcTasks,
                   children, latestInputSpeechBlock>>
    /\ UNCHANGED notWebVars

\* The server or the network closes the channel.
ServerClose(c) ==
    /\ clients[c] = "open"
    /\ clients' = [clients EXCEPT ![c] = "closed"]
    /\ UNCHANGED <<loop, sent, nFrames, handled, errors, realtimeStreaming, sawFunctionCall,
                   playQueue, webVars>>
    /\ UNCHANGED notWebVars

\* handleRealtimeMessages after its for-await: messages() ended because the
\* channel closed; the loop's trailing resetAudio(false) runs.
LoopEnd(c) ==
    /\ loop[c] = "waiting"
    /\ clients[c] = "closed"
    /\ loop' = [loop EXCEPT ![c] = "done"]
    /\ resetAudio(FALSE)
    /\ UNCHANGED <<clients, sent, nFrames, handled, errors, realtimeStreaming, sawFunctionCall,
                   inputState,
                   fcTasks, children, latestInputSpeechBlock>>
    /\ UNCHANGED notWebVars

\* ---- web sample: inbound frames -----------------------------------------
\* (mutant) the flag is not cleared when the continuation is sent
handleResponseDone_keepsFlag ==
    IF sawFunctionCall
    THEN /\ UNCHANGED sawFunctionCall
         /\ send(realtimeStreaming, "response.create")
    ELSE UNCHANGED <<sawFunctionCall, sent, errors>>

\* (mutant) the continuation is sent whatever the flag
handleResponseDone_alwaysSends ==
    /\ sawFunctionCall' = FALSE
    /\ send(realtimeStreaming, "response.create")

\* handleResponseDone up to its await: with the flag set it is cleared and
\* the continuation is sent; otherwise the turn is over.
handleResponseDone ==
    IF sawFunctionCall
    THEN /\ sawFunctionCall' = FALSE
         /\ send(realtimeStreaming, "response.create")
    ELSE UNCHANGED <<sawFunctionCall, sent, errors>>

\* handleFunctionCall up to its first await: a function_call item sets the
\* flag; with arguments that parse, the call suspends in the tool invocation.
handleFunctionCall(item, n) ==
    /\ sawFunctionCall' = (sawFunctionCall \/ item \in {"function_call", "function_call_badargs"})
    /\ fcTasks' = IF item = "function_call" THEN fcTasks \cup {n} ELSE fcTasks

\* handleFunctionCall resumed: the tool returned (or failed, which yields an
\* error result); the function_call_output item is sent.
ToolReturns(n) ==
    /\ n \in fcTasks
    /\ fcTasks' = fcTasks \ {n}
    /\ send(realtimeStreaming, "conversation.item.create")
    /\ UNCHANGED <<clients, loop, nFrames, handled, realtimeStreaming, sawFunctionCall, playQueue,
                   inputState, recordingActive, audioRecorder, audioPlayer, micPending,
                   children, latestInputSpeechBlock>>
    /\ UNCHANGED notWebVars

\* The default branch of the switch, were it to throw on a type it does not
\* know: the receive loop of client c dies.
onUnknownFrame_throws(c) ==
    /\ loop' = [loop EXCEPT ![c] = "crashed"]
    /\ errors' = errors \cup {"TypeError"}
    /\ UNCHANGED <<sent, sawFunctionCall, playQueue, fcTasks, children, latestInputSpeechBlock,
                   inputState>>

\* default: the frame is logged and the loop of client c goes on.
onUnknownFrame(c) ==
    UNCHANGED <<loop, sent, errors, sawFunctionCall, playQueue, fcTasks, children,
                latestInputSpeechBlock, inputState>>

\* One iteration of the for-await of handleRealtimeMessages over the messages
\* of client c, up to the next suspension of the loop.
HandleFrame(c, f) ==
    LET n == nFrames + 1 IN
    /\ clients[c] = "open"
    /\ loop[c] = "waiting"
    /\ n <= MaxFrames
    /\ nFrames' = n
    /\ handled' = Delivered(f)
    /\ CASE f.type = "session.created" ->
              /\ inputState' = "ReadyToStop"
              /\ children' = makeNewTextBlock(makeNewTextBlock(children, <<"<< Session Started >>">>), <<>>)
              /\ UNCHANGED <<loop, sent, errors, sawFunctionCall, playQueue, fcTasks,
                             latestInputSpeechBlock>>
         [] f.type = "response.audio_transcript.delta" ->
              /\ children' = appendToTextBlock(children, f.arg)
              /\ UNCHANGED <<loop, sent, errors, sawFunctionCall, playQueue, fcTasks,
                             latestInputSpeechBlock, inputState>>
         [] f.type = "response.audio.delta" ->
              /\ playQueue' = play(playQueue, n)
              /\ UNCHANGED <<loop, sent, errors, sawFunctionCall, fcTasks, children,
                             latestInputSpeechBlock, inputState>>
         [] f.type = "input_audio_buffer.speech_started" ->
              /\ children' = makeNewTextBlock(makeNewTextBlock(children, <<"<< Speech Started >>">>), <<>>)
              /\ latestInputSpeechBlock' = Len(children) + 1
              /\ playQueue' = clear(playQueue)
              /\ UNCHANGED <<loop, sent, errors, sawFunctionCall, fcTasks, inputState>>
         [] f.type = "conversation.item.input_audio_transcription.completed" ->
              IF latestInputSpeechBlock = 0
              THEN \* textContent of undefined: the loop dies of a TypeError
                   /\ loop' = [loop EXCEPT ![c] = "crashed"]
                   /\ errors' = errors \cup {"TypeError"}
                   /\ UNCHANGED <<sent, sawFunctionCall, playQueue, fcTasks, children,
                                  latestInputSpeechBlock, inputState>>
              ELSE /\ children' = [children EXCEPT ![latestInputSpeechBlock].text =
                                                      Append(@, " User: ")]
                   /\ UNCHANGED <<loop, sent, errors, sawFunctionCall, playQueue, fcTasks,
                                  latestInputSpeechBlock, inputState>>
         [] f.type = "response.done" ->
              /\ handleResponseDone
              /\ children' = Append(children, HR)
              /\ UNCHANGED <<loop, playQueue, fcTasks, latestInputSpeechBlock, inputState>>
         [] f.type = "response.output_item.done" ->
              /\ handleFunctionCall(f.arg, n)
              /\ UNCHANGED <<loop, sent, errors, playQueue, children, latestInputSpeechBlock,
                             inputState>>
         [] OTHER -> onUnknownFrame(c)
    /\ UNCHANGED <<clients, realtimeStreaming, recordingActive, audioRecorder, audioPlayer,
                   micPending>>
    /\ UNCHANGED notWebVars

\* ---- web sample: specification -------------------------------------------
InitCommon ==
    /\ clients = [c \in ClientIds |-> "unborn"]
    /\ loop = [c \in ClientIds |-> "none"]
    /\ sent = <<>>
    /\ nFrames = 0
    /\ handled = <<>>
    /\ errors = {}
    /\ realtimeStreaming = NULL
    /\ sawFunctionCall = FALSE
    /\ playQueue = <<>>

InitWebVars ==
    /\ inputState = "ReadyToStart"
    /\ recordingActive = FALSE
    /\ audioRecorder = "undefined"
    /\ audioPlayer = "undefined"
    /\ micPending = 0
    /\ fcTasks = {}
    /\ children = <<>>
    /\ latestInputSpeechBlock = 0
    /\ buffer = <<>>
    /\ nData = 0
    /\ captured = 0

InitPlayerVars ==
    /\ currentTime = 0
    /\ nextStartTime = 0
    /\ scheduled = <<>>

InitStreamVars ==
    /\ events = <<>>
    /\ unread = <<>>
    /\ streamBuffer = <<>>
    /\ firstChunk = TRUE
    /\ msgContent = <<>>
    /\ shown = <<>>
    /\ phase = "none"

InitFormVars ==
    form = [azure |-> FALSE, endpoint |-> "", key |-> "", deploymentOrModel |-> ""]

InitSendVars ==
    /\ currentMessage = <<>>
    /\ sendStage = [first |-> 0, second |-> 0]

InitUiVars ==
    /\ isConnected = FALSE
    /\ isConnecting = FALSE
    /\ isRecording = FALSE
    /\ messages = <<>>

InitReactVars ==
    /\ mounted = TRUE
    /\ attempts = {}
    /\ disconnecting = 0
    /\ audioHandlerRef = "null"
    /\ initPending = TRUE
    /\ replacedChunks = 0
    /\ playbackActive = FALSE
    /\ recorderOn = FALSE
    /\ recStarting = 0
    /\ lastOp = ""
    /\ consecDisc = 0
    /\ callPending = FALSE

InitGenericVars ==
    /\ webSocketClient = NULL
    /\ selectedModel = "phi3"
    /\ messageMap = <<>>
    /\ currentConnectingMessage = <<>>
    /\ currentUserMessage = <<>>
    /\ audioPlayerRef = "null"
    /\ audioRecorderRef = "null"
    /\ starting = 0
    /\ receivers = [c \in ClientIds |-> 0]
    /\ crashed = {}
    /\ discStage = [st \in DiscStages |-> 0]
    /\ recPending = 0
    /\ stopPending = 0
    /\ randoms = 0
    /\ expected = [id \in ServerIds |-> <<>>]
    /\ nInputs = 0
    /\ fetching = {}
    /\ dateNow = 0

InitWeb == InitCommon /\ InitWebVars /\ InitUiVars /\ InitReactVars /\ InitGenericVars
                      /\ InitPlayerVars /\ InitStreamVars /\ InitSendVars /\ InitFormVars

NextWeb ==
    \/ StartClick
    \/ \E c \in ClientIds : ConfigSent(c)
    \/ \E c \in ClientIds : ConfigFailed(c)
    \/ MicGranted
    \/ MicDenied
    \/ \E c \in ClientIds, f \in WebFrames : HandleFrame(c, f)
    \/ \E n \in 1..MaxFrames : ToolReturns(n)
    \/ StopClick
    \/ \E c \in ClientIds : ServerClose(c)
    \/ \E c \in ClientIds : LoopEnd(c)

SpecWeb == InitWeb /\ [][NextWeb]_vars

\* The web sample's sessions with the capture path: of the inbound frames,
\* the one that enables the stop button.
CaptureFrames == { f \in WebFrames : f.type = "session.created" }

InitCapture == InitWeb

NextCapture ==
    \/ StartClick
    \/ \E c \in ClientIds : ConfigSent(c)
    \/ MicGranted
    \/ \E c \in ClientIds : ServerClose(c)
    \/ \E c \in ClientIds, f \in CaptureFrames : HandleFrame(c, f)
    \/ StopClick
    \/ \E c \in ClientIds : LoopEnd(c)
    \/ RecorderData

SpecCapture == InitCapture /\ [][NextCapture]_vars

\* The player by itself: chunks played, cleared, and the device playing on.
InitPlayer == InitWeb

NextPlayer == PlayerPlay \/ PlayerClear \/ PlayerClock

SpecPlayer == InitPlayer /\ [][NextPlayer]_vars

\* The web sample's sessions with the player's init: of the inbound frames,
\* those that enable the stop button and that reach the player.
PlaybackFrames ==
    { f \in WebFrames : f.type \in {"session.created", "response.audio.delta",
                                    "input_audio_buffer.speech_started"} }

InitPlayback == InitWeb

NextPlayback ==
    \/ StartClick
    \/ \E c \in ClientIds : ConfigSent(c)
    \/ MicGranted
    \/ PlayerReady
    \/ \E c \in ClientIds, f \in PlaybackFrames : HandleFrame(c, f)
    \/ StopClick
    \/ \E c \in ClientIds : ServerClose(c)
    \/ \E c \in ClientIds : LoopEnd(c)

SpecPlayback == InitPlayback /\ [][NextPlayback]_vars

\* ---- web sample, the settings form: specification --------------------------
\* The sessions in which the form is filled in before the start button is
\* clicked; the server answers with session.created only.
InitStart == InitWeb

NextStart ==
    \/ FormChange
    \/ FormStartClick
    \/ \E c \in ClientIds : ConfigSent(c)
    \/ \E c \in ClientIds : ConfigFailed(c)
    \/ \E c \in ClientIds, f \in CaptureFrames : HandleFrame(c, f)
    \/ StopClick

SpecStart == InitStart /\ [][NextStart]_vars

\* ---- React sample: connect and disconnect ---------------------------------
\* A state setter of the component: it has no effect after the unmount.
Set(current, value) == IF mounted THEN value ELSE current

\* (mutant) the connect button stays enabled while connecting
ConnectButtonEnabled_always == TRUE

\* The connect button is rendered with disabled={isConnecting}.
ConnectButtonEnabled == ~isConnecting

\* The record button is rendered with disabled={!isConnected}.
RecordButtonEnabled == isConnected

\* The calls of the React sample's handlers that are suspended in close() or
\* in startRecording.
R_Suspended == disconnecting + recStarting

\* disconnect() up to its await: with a transport handle, close() is called.
disconnectUpTo(pending) ==
    IF realtimeStreaming # NULL
    THEN /\ R_Suspended < pending
         /\ clients' = close(realtimeStreaming)
         /\ disconnecting' = disconnecting + 1
         /\ UNCHANGED consecDisc
    ELSE /\ consecDisc' = IF consecDisc < 2 THEN consecDisc + 1 ELSE 2
         /\ UNCHANGED <<clients, disconnecting>>

disconnect == disconnectUpTo(MaxPending)

\* (mutant) the handle is kept
disconnectResumed_keepsHandle ==
    /\ UNCHANGED realtimeStreaming
    /\ isConnected' = Set(isConnected, FALSE)

\* disconnect() resumed after close(): the handle is dropped.
disconnectResumed ==
    /\ realtimeStreaming' = NULL
    /\ isConnected' = Set(isConnected, FALSE)

DisconnectResume ==
    /\ disconnecting > 0
    /\ disconnecting' = disconnecting - 1
    /\ disconnectResumed
    /\ consecDisc' = IF consecDisc < 2 THEN consecDisc + 1 ELSE 2
    /\ lastOp' = "disconnect()"
    /\ UNCHANGED <<clients, loop, sent, nFrames, handled, errors, sawFunctionCall, playQueue,
                   isConnecting, isRecording, messages, mounted, attempts, audioHandlerRef,
                   initPending, replacedChunks,
                   playbackActive, recorderOn, recStarting, webVars, apartVars, genericVars,
                   callPending>>

\* (mutant) connects whether connected or not
handleConnect_alwaysConnects(endpoint) ==
    /\ IF URLThrows(endpoint)
       THEN UNCHANGED <<clients, realtimeStreaming, attempts, isConnecting>>
       ELSE /\ FreshClient # NULL
            /\ clients' = [clients EXCEPT ![FreshClient] = "connecting"]
            /\ realtimeStreaming' = FreshClient
            /\ attempts' = attempts \cup {FreshClient}
            /\ isConnecting' = TRUE
    /\ consecDisc' = 0
    /\ lastOp' = IF isConnected THEN "disconnect" ELSE "other"
    /\ UNCHANGED disconnecting

\* handleConnect up to its first await.  Not connected: the connecting flag is
\* set and a client constructed (new URL may throw, which the catch logs and
\* the finally undoes); connected: disconnect().
handleConnectUpTo(endpoint, pending) ==
    IF ~isConnected
    THEN /\ IF URLThrows(endpoint)
            THEN UNCHANGED <<clients, realtimeStreaming, attempts, isConnecting>>
            ELSE /\ FreshClient # NULL
                 /\ clients' = [clients EXCEPT ![FreshClient] = "connecting"]
                 /\ realtimeStreaming' = FreshClient
                 /\ attempts' = attempts \cup {FreshClient}
                 /\ isConnecting' = TRUE
         /\ consecDisc' = 0
         /\ lastOp' = "other"
         /\ UNCHANGED disconnecting
    ELSE /\ disconnectUpTo(pending)
         /\ lastOp' = IF realtimeStreaming # NULL THEN "disconnect" ELSE "disconnect()"
         /\ UNCHANGED <<realtimeStreaming, attempts, isConnecting>>

handleConnect(endpoint) == handleConnectUpTo(endpoint, MaxPending)

ConnectClick ==
    /\ mounted
    /\ ConnectButtonEnabled
    /\ \E endpoint \in Endpoints : handleConnect(endpoint)
    /\ UNCHANGED <<loop, sent, nFrames, handled, errors, sawFunctionCall, playQueue,
                   isConnected, isRecording, messages, mounted, audioHandlerRef, initPending,
                   replacedChunks, playbackActive,
                   recorderOn, recStarting, webVars, apartVars, genericVars,
                   callPending>>

\* handleConnect resumed after the config message went out: the receive loop
\* starts over the messages of the current handle, if there is one.
ConnectSendOk(c) ==
    /\ c \in attempts
    /\ clients[c] = "connecting"
    /\ attempts' = attempts \ {c}
    /\ clients' = [clients EXCEPT ![c] = "open"]
    /\ sent' = Append(sent, OutFrame(c, "session.update"))
    /\ loop' = IF realtimeStreaming # NULL
               THEN [loop EXCEPT ![realtimeStreaming] = "waiting"]
               ELSE loop
    /\ isConnected' = Set(isConnected, TRUE)
    /\ isConnecting' = Set(isConnecting, FALSE)
    /\ lastOp' = "other"
    /\ UNCHANGED <<nFrames, handled, errors, realtimeStreaming, sawFunctionCall, playQueue,
                   isRecording, messages, mounted, disconnecting, audioHandlerRef, initPending,
                   replacedChunks, playbackActive,
                   recorderOn, recStarting, consecDisc, webVars, apartVars, genericVars,
                   callPending>>

\* handleConnect's catch and finally: the config message could not be sent.
ConnectSendFail(c) ==
    /\ c \in attempts
    /\ attempts' = attempts \ {c}
    /\ clients' = [clients EXCEPT ![c] = IF @ = "connecting" THEN "failed" ELSE @]
    /\ isConnecting' = Set(isConnecting, FALSE)
    /\ lastOp' = "other"
    /\ UNCHANGED <<loop, sent, nFrames, handled, errors, realtimeStreaming, sawFunctionCall,
                   playQueue, isConnected, isRecording, messages, mounted, disconnecting,
                   audioHandlerRef, initPending, replacedChunks, playbackActive, recorderOn,
                   recStarting, consecDisc, webVars, apartVars, genericVars,
                   callPending>>

\* The chunks of the queue that the current audio handler does not hold.
Replaced(queue) == SubSeq(queue, 1, replacedChunks)

\* The effect's cleanup at the unmount: disconnect(), and the current audio
\* handler is closed.
Unmount ==
    /\ mounted
    /\ mounted' = FALSE
    /\ disconnect
    /\ recorderOn' = FALSE
    /\ playQueue' = IF audioHandlerRef = "null" THEN playQueue ELSE Replaced(playQueue)
    /\ lastOp' = IF realtimeStreaming # NULL THEN "other" ELSE "disconnect()"
    /\ UNCHANGED <<loop, sent, nFrames, handled, errors, realtimeStreaming, sawFunctionCall,
                   isConnected, isConnecting, isRecording, messages, attempts, audioHandlerRef,
                   initPending, replacedChunks, playbackActive, recStarting, webVars, apartVars, genericVars,
                   callPending>>

\* The mount effect's initAudioHandler resumed: its handler becomes the audio
\* handler, in the place of one toggleRecording made meanwhile, which keeps
\* what it plays.
AudioHandlerInit ==
    /\ initPending
    /\ initPending' = FALSE
    /\ audioHandlerRef' = "ready"
    /\ replacedChunks' = Len(playQueue)
    /\ recorderOn' = FALSE
    /\ lastOp' = "other"
    /\ UNCHANGED <<commonVars, uiVars, mounted, attempts, disconnecting, playbackActive,
                   recStarting, consecDisc, webVars, apartVars, genericVars,
                   callPending>>

\* The mount effect's catch: initialize() rejected.
AudioHandlerInitFailed ==
    /\ initPending
    /\ initPending' = FALSE
    /\ lastOp' = "other"
    /\ UNCHANGED <<commonVars, uiVars, mounted, attempts, disconnecting, audioHandlerRef,
                   replacedChunks, playbackActive, recorderOn, recStarting,
                   consecDisc, webVars, apartVars, genericVars,
                   callPending>>

\* ---- React sample: recording ----------------------------------------------
\* toggleRecording up to its first await: not recording and a transport
\* handle: an audio handler is made if there is none, and the call suspends in
\* startRecording; otherwise, with an audio handler, recording stops.
toggleRecording ==
    IF ~isRecording /\ realtimeStreaming # NULL
    THEN /\ recStarting < MaxStarts
         /\ R_Suspended - recStarting < MaxPending
         /\ recStarting' = recStarting + 1
         /\ audioHandlerRef' = "ready"
         /\ UNCHANGED <<recorderOn, isRecording>>
    ELSE IF audioHandlerRef # "null"
    THEN /\ recorderOn' = FALSE
         /\ isRecording' = FALSE
         /\ UNCHANGED <<recStarting, audioHandlerRef>>
    ELSE UNCHANGED <<recStarting, audioHandlerRef, recorderOn, isRecording>>

RecordClick ==
    /\ mounted
    /\ RecordButtonEnabled
    /\ toggleRecording
    /\ lastOp' = "other"
    /\ UNCHANGED <<commonVars, isConnected, isConnecting, messages, mounted, attempts,
                   disconnecting, initPending, replacedChunks, playbackActive,
                   consecDisc, webVars, apartVars, genericVars,
                   callPending>>

\* toggleRecording resumed: startRecording resolved.
RecStarted ==
    /\ recStarting > 0
    /\ recStarting' = recStarting - 1
    /\ recorderOn' = TRUE
    /\ isRecording' = Set(isRecording, TRUE)
    /\ lastOp' = "other"
    /\ UNCHANGED <<commonVars, isConnected, isConnecting, messages, mounted, attempts,
                   disconnecting, audioHandlerRef, initPending, replacedChunks, playbackActive,
                   consecDisc, webVars, apartVars, genericVars,
                   callPending>>

\* toggleRecording's catch: startRecording rejected.
RecFailed ==
    /\ recStarting > 0
    /\ recStarting' = recStarting - 1
    /\ lastOp' = "startFailed"
    /\ UNCHANGED <<commonVars, uiVars, mounted, attempts, disconnecting, audioHandlerRef,
                   initPending, replacedChunks,
                   playbackActive, recorderOn, consecDisc, webVars, apartVars, genericVars,
                   callPending>>

\* ---- React sample: inbound frames -----------------------------------------
ReactFrames == { f \in FramesOf(FrameTypes) : f.arg \notin {"b", "function_call_badargs"} }

appendChatMessage(message, role) == Append(messages, [type |-> role, content |-> message])

\* playAudio(delta): without an audio handler the
\* chunk is dropped; the first chunk starts the streaming playback.
playAudio(audio) ==
    IF audioHandlerRef = "null"
    THEN UNCHANGED <<playbackActive, playQueue>>
    ELSE /\ playbackActive' = TRUE
         /\ playQueue' = play(playQueue, "chunk")

\* The queue with every chunk in it marked as received before a
\* speech-started frame that was handled while playback was active (history).
Early(queue) == [i \in DOMAIN queue |-> "early"]

\* case "input_audio_buffer.speech_started": active playback is stopped on the
\* current audio handler.
onSpeechStarted ==
    IF playbackActive
    THEN /\ playQueue' = IF audioHandlerRef = "null" THEN Early(playQueue)
                         ELSE Early(Replaced(playQueue))
                              \o clear(SubSeq(playQueue, replacedChunks + 1, Len(playQueue)))
         /\ playbackActive' = FALSE
    ELSE UNCHANGED <<playQueue, playbackActive>>

\* handleResponseDone of the React sample up to its await.
R_handleResponseDone ==
    IF realtimeStreaming # NULL /\ sawFunctionCall
    THEN /\ sawFunctionCall' = FALSE
         /\ send(realtimeStreaming, "response.create")
    ELSE UNCHANGED <<sawFunctionCall, sent, errors>>

\* One iteration of the for-await of handleRealtimeMessages over the messages
\* of client c.
R_HandleFrame(c, f) ==
    LET n == nFrames + 1 IN
    /\ clients[c] = "open"
    /\ loop[c] = "waiting"
    /\ n <= MaxFrames
    /\ nFrames' = n
    /\ lastOp' = IF f.type = "input_audio_buffer.speech_started" THEN "speech_started"
                 ELSE "other"
    /\ callPending' = CASE f = [type |-> "response.output_item.done", arg |-> "function_call"]
                            -> TRUE
                         [] f.type = "response.done" -> FALSE
                         [] OTHER -> callPending
    /\ CASE f.type = "response.audio_transcript.done" ->
              /\ messages' = appendChatMessage("transcript", "assistant")
              /\ UNCHANGED <<sent, errors, sawFunctionCall, playQueue, playbackActive>>
         [] f.type = "response.audio.delta" ->
              /\ playAudio(f.arg)
              /\ UNCHANGED <<sent, errors, sawFunctionCall, messages>>
         [] f.type = "input_audio_buffer.speech_started" ->
              /\ onSpeechStarted
              /\ UNCHANGED <<sent, errors, sawFunctionCall, messages>>
         [] f.type = "conversation.item.input_audio_transcription.completed" ->
              /\ messages' = appendChatMessage("transcript", "user")
              /\ UNCHANGED <<sent, errors, sawFunctionCall, playQueue, playbackActive>>
         [] f.type = "response.done" ->
              /\ R_handleResponseDone
              /\ UNCHANGED <<playQueue, playbackActive, messages>>
         [] OTHER ->
              UNCHANGED <<sent, errors, sawFunctionCall, playQueue, playbackActive, messages>>
    /\ UNCHANGED <<clients, loop, handled, realtimeStreaming, isConnected, isConnecting,
                   isRecording, mounted, attempts, disconnecting, audioHandlerRef, initPending,
                   replacedChunks, recorderOn,
                   recStarting, consecDisc, webVars, apartVars, genericVars>>

\* The audio output consumes the chunk at the head of the queue.
PlaybackDrain ==
    /\ playQueue # <<>>
    /\ playQueue' = Tail(playQueue)
    /\ replacedChunks' = IF replacedChunks > 0 THEN replacedChunks - 1 ELSE 0
    /\ lastOp' = "other"
    /\ UNCHANGED <<clients, loop, sent, nFrames, handled, errors, realtimeStreaming,
                   sawFunctionCall, uiVars, mounted, attempts, disconnecting, audioHandlerRef,
                   initPending, playbackActive, recorderOn, recStarting,
                   consecDisc, webVars, apartVars, genericVars,
                   callPending>>

\* The server or the network closes the channel.
R_ServerClose(c) ==
    /\ clients[c] = "open"
    /\ clients' = [clients EXCEPT ![c] = "closed"]
    /\ lastOp' = "other"
    /\ UNCHANGED <<loop, sent, nFrames, handled, errors, realtimeStreaming, sawFunctionCall,
                   playQueue, uiVars, mounted, attempts, disconnecting, audioHandlerRef,
                   initPending, replacedChunks,
                   playbackActive, recorderOn, recStarting, consecDisc, webVars, apartVars, genericVars,
                   callPending>>

\* handleRealtimeMessages returns: messages() ended because the channel closed.
R_LoopEnd(c) ==
    /\ loop[c] = "waiting"
    /\ clients[c] = "closed"
    /\ loop' = [loop EXCEPT ![c] = "done"]
    /\ lastOp' = "other"
    /\ UNCHANGED <<clients, sent, nFrames, handled, errors, realtimeStreaming, sawFunctionCall,
                   playQueue, uiVars, mounted, attempts, disconnecting, audioHandlerRef,
                   initPending, replacedChunks,
                   playbackActive, recorderOn, recStarting, consecDisc, webVars, apartVars, genericVars,
                   callPending>>

\* ---- React sample: specification ------------------------------------------
InitReact == InitCommon /\ InitWebVars /\ InitUiVars /\ InitReactVars /\ InitGenericVars
                      /\ InitPlayerVars /\ InitStreamVars /\ InitSendVars /\ InitFormVars

NextReact ==
    \/ ConnectClick
    \/ \E c \in ClientIds : ConnectSendOk(c)
    \/ \E c \in ClientIds : ConnectSendFail(c)
    \/ DisconnectResume
    \/ Unmount
    \/ AudioHandlerInit
    \/ AudioHandlerInitFailed
    \/ RecordClick
    \/ RecStarted
    \/ RecFailed
    \/ \E c \in ClientIds, f \in ReactFrames : R_HandleFrame(c, f)
    \/ PlaybackDrain
    \/ \E c \in ClientIds : R_ServerClose(c)
    \/ \E c \in ClientIds : R_LoopEnd(c)

SpecReact == InitReact /\ [][NextReact]_vars

\* ---- React sample, connect and disconnect: specification ------------------
\* The sessions in which the connect/disconnect button is clicked again while
\* up to MaxToggles disconnect() calls are suspended in close(); the
\* microphone is left alone.
InitToggle == InitReact

T_ConnectClick ==
    /\ mounted
    /\ ConnectButtonEnabled
    /\ \E endpoint \in Endpoints : handleConnectUpTo(endpoint, MaxToggles)
    /\ UNCHANGED <<loop, sent, nFrames, handled, errors, sawFunctionCall, playQueue,
                   isConnected, isRecording, messages, mounted, audioHandlerRef, initPending,
                   replacedChunks, playbackActive,
                   recorderOn, recStarting, webVars, apartVars, genericVars,
                   callPending>>

NextToggle ==
    \/ T_ConnectClick
    \/ \E c \in ClientIds : ConnectSendOk(c)
    \/ \E c \in ClientIds : ConnectSendFail(c)
    \/ DisconnectResume
    \/ \E c \in ClientIds, f \in ReactFrames : R_HandleFrame(c, f)
    \/ \E c \in ClientIds : R_ServerClose(c)
    \/ \E c \in ClientIds : R_LoopEnd(c)

SpecToggle == InitToggle /\ [][NextToggle]_vars

\* ---- React sample: text messages -------------------------------------------
\* The texts typed into the input field.
MessageTexts == {<<>>, <<" ">>, <<"h">>, <<" ", "h">>}

RECURSIVE trimStart(_)
trimStart(s) == IF s # <<>> /\ Head(s) = " " THEN trimStart(Tail(s)) ELSE s

RECURSIVE trimEnd(_)
trimEnd(s) == IF s # <<>> /\ s[Len(s)] = " " THEN trimEnd(SubSeq(s, 1, Len(s) - 1)) ELSE s

\* String.prototype.trim
trim(s) == trimEnd(trimStart(s))

\* The input field is rendered with disabled={!isConnected}; its onChange
\* sets the text.
TypeMessage(text) ==
    /\ mounted
    /\ isConnected
    /\ text # currentMessage
    /\ currentMessage' = text
    /\ UNCHANGED <<commonVars, webVars, uiVars, reactVars, genericVars, playerVars, streamVars, formVars,
                   sendStage>>

\* (mutant) the response is not asked for
sendMessageResumed_itemOnly ==
    /\ sendStage' = [sendStage EXCEPT !.first = @ - 1, !.second = @ + 1]
    /\ UNCHANGED <<sent, errors>>

\* sendMessage resumed after its first send: the response is asked for over
\* the handle of now; without a handle the call throws into the catch.
sendMessageResumed ==
    /\ send(realtimeStreaming, "response.create")
    /\ sendStage' = IF realtimeStreaming # NULL /\ clients[realtimeStreaming] = "open"
                    THEN [sendStage EXCEPT !.first = @ - 1, !.second = @ + 1]
                    ELSE [sendStage EXCEPT !.first = @ - 1]

\* sendMessage up to its first await: with text that is not blank and a
\* handle, the user message is appended and the item sent; a send that fails
\* ends the call in the catch.
sendMessage ==
    IF trim(currentMessage) # <<>> /\ realtimeStreaming # NULL
    THEN /\ Len(messages) < MaxSends
         /\ sendStage.first + sendStage.second < MaxSends
         /\ messages' = Set(messages, appendChatMessage(currentMessage, "user"))
         /\ send(realtimeStreaming, "conversation.item.create")
         /\ sendStage' = IF clients[realtimeStreaming] = "open"
                         THEN [sendStage EXCEPT !.first = @ + 1]
                         ELSE sendStage
    ELSE UNCHANGED <<messages, sent, errors, sendStage>>

\* The send button and the input field's Enter key, both rendered with
\* disabled={!isConnected}.
SendClick ==
    /\ mounted
    /\ isConnected
    /\ sendMessage
    /\ lastOp' = "sendMessage"
    /\ UNCHANGED <<clients, loop, nFrames, handled, realtimeStreaming, sawFunctionCall, playQueue,
                   isConnected, isConnecting, isRecording, mounted, attempts, disconnecting,
                   audioHandlerRef, initPending, replacedChunks, playbackActive, recorderOn,
                   recStarting, consecDisc, callPending, webVars, genericVars, playerVars,
                   streamVars, formVars, currentMessage>>

SendItemDone ==
    /\ sendStage.first > 0
    /\ sendMessageResumed
    /\ lastOp' = "other"
    /\ UNCHANGED <<clients, loop, nFrames, handled, realtimeStreaming, sawFunctionCall, playQueue,
                   uiVars, mounted, attempts, disconnecting, audioHandlerRef, initPending,
                   replacedChunks, playbackActive, recorderOn, recStarting, consecDisc,
                   callPending, webVars, genericVars, playerVars, streamVars, formVars, currentMessage>>

\* sendMessage resumed after its second send: the input field is emptied.
SendResponseDone ==
    /\ sendStage.second > 0
    /\ sendStage' = [sendStage EXCEPT !.second = @ - 1]
    /\ currentMessage' = Set(currentMessage, <<>>)
    /\ lastOp' = "other"
    /\ UNCHANGED <<commonVars, uiVars, mounted, attempts, disconnecting, audioHandlerRef,
                   initPending, replacedChunks, playbackActive, recorderOn, recStarting,
                   consecDisc, callPending, webVars, genericVars, playerVars, streamVars, formVars>>

\* The sessions without inbound frames and without the microphone: connect,
\* disconnect, the server closing the channel, and text messages.
InitSend == InitReact

NextSend ==
    \/ ConnectClick
    \/ \E c \in ClientIds : ConnectSendOk(c)
    \/ \E c \in ClientIds : ConnectSendFail(c)
    \/ DisconnectResume
    \/ \E c \in ClientIds : R_ServerClose(c)
    \/ \E text \in MessageTexts : TypeMessage(text)
    \/ SendClick
    \/ SendItemDone
    \/ SendResponseDone

SpecSend == InitSend /\ [][NextSend]_vars

\* ---- generic frontend: messages ------------------------------------------
\* obj tells the message objects of sendMessage's calls apart (the number of
\* the call; 0 for every other message).
Msg(id, type, content) == [id |-> id, type |-> type, content |-> content, obj |-> 0]
Has(map, id) == \E i \in DOMAIN map : map[i].id = id
Get(map, id) == map[CHOOSE i \in DOMAIN map : map[i].id = id]

\* Map.set(id, m): the value of a key already present is replaced in place,
\* a new key goes behind the others.
MapSet(map, m) ==
    IF Has(map, m.id)
    THEN [i \in DOMAIN map |-> IF map[i].id = m.id THEN m ELSE map[i]]
    ELSE Append(map, m)

\* An assignment to the content of the message object with this id; an object
\* no longer in the map changes nothing that is displayed.
SetContent(map, id, content) ==
    [i \in DOMAIN map |-> IF map[i].id = id THEN [map[i] EXCEPT !.content = content] ELSE map[i]]

\* The frames of the generic frontend's own protocol: text frames that parse
\* to a WSMessage, and binary audio frames.
GenericFrames ==
    { [type |-> "text_delta", id |-> <<"m", 1>>, arg |-> d] : d \in Deltas }
    \cup { [type |-> "text_delta", id |-> i, arg |-> "a"] : i \in {<<"m", 2>>, <<>>} }
    \cup { [type |-> "transcription", id |-> <<"u", 1>>, arg |-> "text"] }
    \cup { [type |-> "control", id |-> <<>>, arg |-> a] :
             a \in {"connected+greeting", "speech_started"} }
    \cup { [type |-> "binary", id |-> <<>>, arg |-> ""] }

\* The history of the deltas of the server's message ids with frame f arrived.
Arrived(f) ==
    IF f.type = "text_delta" /\ f.id \in ServerIds
    THEN [expected EXCEPT ![f.id] = Append(@, f.arg)]
    ELSE expected

NoDeltas == [id \in ServerIds |-> <<>>]

\* handleWSMessage(message) dereferences a ref that holds nothing.
Throws(f) ==
    \/ f.type = "transcription" /\ f.id # <<>> /\ currentUserMessage = <<>>
    \/ f.type = "control" /\ f.arg = "connected+greeting" /\ currentConnectingMessage = <<>>

\* (mutant) every delta creates a message
onTextDelta_alwaysCreates(f) == Append(messageMap, Msg(f.id, "assistant", <<f.arg>>))

\* case "text_delta" with an id: the map after the delta went onto the content
\* of the message with the id, or a new assistant message was set under it.
onTextDelta(f) ==
    IF Has(messageMap, f.id)
    THEN SetContent(messageMap, f.id, Append(Get(messageMap, f.id).content, f.arg))
    ELSE MapSet(messageMap, Msg(f.id, "assistant", <<f.arg>>))

\* handleWSMessage(message), for a message it does not throw on.
handleWSMessage(f) ==
    CASE f.type = "transcription" /\ f.id # <<>> ->
           /\ messageMap' = SetContent(messageMap, currentUserMessage, <<f.arg>>)
           /\ messages' = messageMap'
           /\ UNCHANGED <<currentUserMessage, playQueue, randoms>>
      [] f.type = "text_delta" /\ f.id # <<>> ->
           /\ messageMap' = onTextDelta(f)
           /\ messages' = messageMap'
           /\ UNCHANGED <<currentUserMessage, playQueue, randoms>>
      [] f.type = "control" /\ f.arg = "connected+greeting" ->
           /\ messageMap' = SetContent(messageMap, currentConnectingMessage, <<"greeting">>)
           /\ messages' = messageMap'
           /\ UNCHANGED <<currentUserMessage, playQueue, randoms>>
      [] f.type = "control" /\ f.arg = "speech_started" ->
           /\ playQueue' = IF audioPlayerRef = "null" THEN playQueue ELSE clear(playQueue)
           /\ randoms' = randoms + 1
           /\ currentUserMessage' = <<"userMessage", randoms + 1>>
           /\ messageMap' = MapSet(messageMap, Msg(<<"userMessage", randoms + 1>>, "user", <<"...">>))
           /\ messages' = messageMap'
      [] OTHER ->
           UNCHANGED <<messageMap, messages, currentUserMessage, playQueue, randoms>>

\* One iteration of the for-await of receiveLoop over the frames of client c:
\* a text frame goes to handleWSMessage, a binary frame to the player.
G_HandleFrame(c, f) ==
    /\ clients[c] = "open"
    /\ receivers[c] > 0
    /\ nFrames < MaxFrames
    /\ nFrames' = nFrames + 1
    /\ expected' = Arrived(f)
    /\ IF f.type = "binary"
       THEN /\ playQueue' = play(playQueue, nFrames + 1)
            /\ UNCHANGED <<messageMap, messages, currentUserMessage, randoms, receivers, crashed,
                           errors>>
       ELSE IF Throws(f)
       THEN /\ receivers' = [receivers EXCEPT ![c] = @ - 1]
            /\ crashed' = crashed \cup {c}
            /\ errors' = errors \cup {"TypeError"}
            /\ UNCHANGED <<messageMap, messages, currentUserMessage, playQueue, randoms>>
       ELSE /\ handleWSMessage(f)
            /\ UNCHANGED <<receivers, crashed, errors>>
    /\ UNCHANGED <<clients, loop, sent, handled, realtimeStreaming, sawFunctionCall, isConnected,
                   isConnecting, isRecording, webSocketClient, selectedModel,
                   currentConnectingMessage, audioPlayerRef, audioRecorderRef, starting,
                   discStage, recPending, stopPending, webVars, apartVars, reactVars,
                   nInputs, fetching, dateNow>>

\* A frame arrives on an open channel whose receive loop has died: nobody
\* reads it.
G_FrameUnread(c, f) ==
    /\ clients[c] = "open"
    /\ receivers[c] = 0 /\ c \in crashed /\ starting = 0
    /\ nFrames < MaxFrames
    /\ nFrames' = nFrames + 1
    /\ expected' = Arrived(f)
    /\ UNCHANGED <<clients, loop, sent, handled, errors, realtimeStreaming, sawFunctionCall,
                   playQueue, uiVars, webSocketClient, selectedModel, messageMap,
                   currentConnectingMessage, currentUserMessage, audioPlayerRef, audioRecorderRef,
                   starting, receivers, crashed, discStage, recPending, stopPending, randoms,
                   webVars, apartVars, reactVars,
                   nInputs, fetching, dateNow>>

\* ---- generic frontend: connect and disconnect -----------------------------
\* The connect button is rendered with disabled={isConnecting || !validEndpoint};
\* a valid endpoint is one new URL accepts.
G_ConnectButtonEnabled(endpoint) == ~isConnecting /\ ~URLThrows(endpoint)

\* The input controls are rendered with disabled={!isConnected || selectedModel !== "phi3"}.
G_InputEnabled == isConnected /\ selectedModel = "phi3"

\* The calls of the generic frontend's handlers that are suspended at an await.
G_Suspended ==
    starting + recPending + stopPending
    + discStage["toggle"] + discStage["toggleNoop"] + discStage["clear"] + discStage["close"]

Suspend(stage) == [discStage EXCEPT ![stage] = @ + 1]
Resume(stage, next) == [discStage EXCEPT ![stage] = @ - 1, ![next] = @ + 1]

\* disconnect() up to its first await: the session is marked disconnected;
\* when recording, toggleRecording() is awaited (handleAudioRecord stops the
\* recorder if there is one); otherwise the recorder is stopped and the
\* player's clear() awaited.
G_disconnectUpTo(pending) ==
    /\ isConnected' = FALSE
    /\ IF isRecording
       THEN /\ G_Suspended < pending
            /\ discStage' = Suspend(IF audioRecorderRef # "null" THEN "toggle" ELSE "toggleNoop")
            /\ audioRecorderRef' = IF audioRecorderRef # "null" THEN "idle" ELSE "null"
            /\ UNCHANGED playQueue
       ELSE /\ G_Suspended < pending
            /\ discStage' = Suspend("clear")
            /\ audioRecorderRef' = IF audioRecorderRef # "null" THEN "idle" ELSE "null"
            /\ playQueue' = IF audioPlayerRef = "null" THEN playQueue ELSE clear(playQueue)

G_disconnect == G_disconnectUpTo(MaxPending)

\* disconnect() resumed after toggleRecording(): the recording state is set
\* to what handleAudioRecord returned, the recorder is stopped and the
\* player's clear() awaited.
G_DisconnectToggled(stage) ==
    /\ stage \in {"toggle", "toggleNoop"}
    /\ discStage[stage] > 0
    /\ discStage' = Resume(stage, "clear")
    /\ isRecording' = (stage = "toggleNoop")
    /\ audioRecorderRef' = IF stage = "toggle" \/ audioRecorderRef = "null" THEN "null" ELSE "idle"
    /\ playQueue' = IF audioPlayerRef = "null" THEN playQueue ELSE clear(playQueue)
    /\ UNCHANGED <<clients, loop, sent, nFrames, handled, errors, realtimeStreaming,
                   sawFunctionCall, isConnected, isConnecting, messages, webSocketClient,
                   selectedModel, messageMap, currentConnectingMessage, currentUserMessage,
                   audioPlayerRef, starting, receivers, crashed, recPending, stopPending, randoms,
                   expected, webVars, apartVars, reactVars,
                   nInputs, fetching, dateNow>>

\* disconnect() resumed after the player's clear(): the transport that is the
\* handle now is closed.
G_DisconnectCleared ==
    /\ discStage["clear"] > 0
    /\ discStage' = Resume("clear", "close")
    /\ clients' = IF webSocketClient = NULL THEN clients ELSE close(webSocketClient)
    /\ UNCHANGED <<loop, sent, nFrames, handled, errors, realtimeStreaming, sawFunctionCall,
                   playQueue, uiVars, webSocketClient, selectedModel, messageMap,
                   currentConnectingMessage, currentUserMessage, audioPlayerRef, audioRecorderRef,
                   starting, receivers, crashed, recPending, stopPending, randoms, expected,
                   webVars, apartVars, reactVars,
                   nInputs, fetching, dateNow>>

\* disconnect() resumed after close(): the handle and the messages are dropped.
G_DisconnectClosed ==
    /\ discStage["close"] > 0
    /\ discStage' = [discStage EXCEPT !["close"] = @ - 1]
    /\ webSocketClient' = NULL
    /\ messageMap' = <<>>
    /\ messages' = <<>>
    /\ expected' = NoDeltas
    /\ UNCHANGED <<clients, loop, sent, nFrames, handled, errors, realtimeStreaming,
                   sawFunctionCall, playQueue, isConnected, isConnecting, isRecording,
                   selectedModel, currentConnectingMessage, currentUserMessage, audioPlayerRef,
                   audioRecorderRef, starting, receivers, crashed, recPending, stopPending,
                   randoms, webVars, apartVars, reactVars,
                   nInputs, fetching, dateNow>>

\* handleConnect up to its first await.  Phi-3: the session is marked connected
\* without a transport, or disconnect().  Otherwise, connected: disconnect();
\* not connected: the map is reset to a status message, a client is
\* constructed and receiveLoop() called, which suspends in initAudioPlayer.
G_handleConnectUpTo(sessions, pending) ==
    IF isConnected
    THEN /\ G_disconnectUpTo(pending)
         /\ UNCHANGED <<clients, webSocketClient, messageMap, messages, currentConnectingMessage,
                        audioPlayerRef, starting, expected>>
    ELSE IF selectedModel = "phi3"
    THEN /\ isConnected' = TRUE
         /\ UNCHANGED <<clients, webSocketClient, messageMap, messages, currentConnectingMessage,
                        audioPlayerRef, audioRecorderRef, starting, expected, discStage, playQueue>>
    ELSE /\ FreshClient # NULL
         /\ Cardinality({c \in ClientIds : clients[c] # "unborn"}) < sessions
         /\ G_Suspended < pending
         /\ currentConnectingMessage' = <<"status", 0>>
         /\ messageMap' = <<Msg(<<"status", 0>>, "status", <<"Connecting...">>)>>
         /\ messages' = messageMap'
         /\ expected' = NoDeltas
         /\ clients' = [clients EXCEPT ![FreshClient] = "open"]
         /\ webSocketClient' = FreshClient
         /\ isConnected' = TRUE
         /\ audioPlayerRef' = "ready"
         /\ starting' = starting + 1
         /\ UNCHANGED <<audioRecorderRef, discStage, playQueue>>

G_handleConnect == G_handleConnectUpTo(MaxSessions, MaxPending)

G_ConnectClick ==
    /\ \E endpoint \in Endpoints : G_ConnectButtonEnabled(endpoint)
    /\ G_handleConnect
    /\ UNCHANGED <<loop, sent, nFrames, handled, errors, realtimeStreaming, sawFunctionCall,
                   isConnecting, isRecording, selectedModel, currentUserMessage, receivers,
                   crashed, recPending, stopPending, randoms, webVars, apartVars, reactVars,
                   nInputs, fetching, dateNow>>

\* receiveLoop resumed after initAudioPlayer: without a handle it returns,
\* with one it iterates the frames of the client that is the handle now.
G_LoopStart ==
    /\ starting > 0
    /\ starting' = starting - 1
    /\ receivers' = IF webSocketClient = NULL THEN receivers
                    ELSE [receivers EXCEPT ![webSocketClient] = @ + 1]
    /\ UNCHANGED <<commonVars, uiVars, webSocketClient, selectedModel, messageMap,
                   currentConnectingMessage, currentUserMessage, audioPlayerRef, audioRecorderRef,
                   crashed, discStage, recPending, stopPending, randoms, expected, webVars, apartVars,
                   reactVars,
                   nInputs, fetching, dateNow>>

\* The model radio group of the settings dialog.
G_SelectModel(model) ==
    /\ model \in {"azure", "phi3"}
    /\ model # selectedModel
    /\ selectedModel' = model
    /\ UNCHANGED <<commonVars, uiVars, webSocketClient, messageMap, currentConnectingMessage,
                   currentUserMessage, audioPlayerRef, audioRecorderRef, starting, receivers,
                   crashed, discStage, recPending, stopPending, randoms, expected, webVars, apartVars,
                   reactVars,
                   nInputs, fetching, dateNow>>

\* The server or the network closes the channel.
G_ServerClose(c) ==
    /\ clients[c] = "open"
    /\ clients' = [clients EXCEPT ![c] = "closed"]
    /\ UNCHANGED <<loop, sent, nFrames, handled, errors, realtimeStreaming, sawFunctionCall,
                   playQueue, uiVars, genericVars, webVars, apartVars, reactVars>>

\* ---- generic frontend: recording -------------------------------------------
\* toggleRecording with handleAudioRecord(webSocketClient.current, isRecording)
\* up to its first await: not recording and a handle: a recorder is made if
\* there is none and the call suspends in getUserMedia; otherwise a recorder
\* there is gets stopped.
G_toggleRecording ==
    IF ~isRecording /\ webSocketClient # NULL
    THEN /\ recPending < MaxStarts
         /\ G_Suspended - recPending < MaxPending
         /\ recPending' = recPending + 1
         /\ audioRecorderRef' = IF audioRecorderRef = "null" THEN "idle" ELSE audioRecorderRef
         /\ UNCHANGED stopPending
    ELSE IF audioRecorderRef # "null"
    THEN /\ G_Suspended < MaxPending
         /\ stopPending' = stopPending + 1
         /\ audioRecorderRef' = "idle"
         /\ UNCHANGED recPending
    ELSE UNCHANGED <<recPending, stopPending, audioRecorderRef>>

G_RecordClick ==
    /\ G_InputEnabled
    /\ G_toggleRecording
    /\ UNCHANGED <<commonVars, uiVars, webSocketClient, selectedModel, messageMap,
                   currentConnectingMessage, currentUserMessage, audioPlayerRef, starting,
                   receivers, crashed, discStage, randoms, expected, webVars, apartVars, reactVars,
                   nInputs, fetching, dateNow>>

\* toggleRecording resumed: getUserMedia resolved and the recorder is started;
\* with the recorder ref emptied meanwhile, start throws and the catch marks
\* the session not recording.
G_RecStarted ==
    /\ recPending > 0
    /\ recPending' = recPending - 1
    /\ audioRecorderRef' = IF audioRecorderRef = "null" THEN "null" ELSE "capturing"
    /\ isRecording' = (audioRecorderRef # "null")
    /\ UNCHANGED <<commonVars, isConnected, isConnecting, messages, webSocketClient,
                   selectedModel, messageMap, currentConnectingMessage, currentUserMessage,
                   audioPlayerRef, starting, receivers, crashed, discStage, stopPending, randoms,
                   expected, webVars, apartVars, reactVars,
                   nInputs, fetching, dateNow>>

\* toggleRecording's catch: getUserMedia rejected.
G_RecFailed ==
    /\ recPending > 0
    /\ recPending' = recPending - 1
    /\ isRecording' = FALSE
    /\ UNCHANGED <<commonVars, isConnected, isConnecting, messages, webSocketClient,
                   selectedModel, messageMap, currentConnectingMessage, currentUserMessage,
                   audioPlayerRef, audioRecorderRef, starting, receivers, crashed, discStage,
                   stopPending, randoms, expected, webVars, apartVars, reactVars,
                   nInputs, fetching, dateNow>>

\* toggleRecording resumed after Recorder.stop(): the recorder is dropped.
G_RecStopped ==
    /\ stopPending > 0
    /\ stopPending' = stopPending - 1
    /\ audioRecorderRef' = "null"
    /\ isRecording' = FALSE
    /\ UNCHANGED <<commonVars, isConnected, isConnecting, messages, webSocketClient,
                   selectedModel, messageMap, currentConnectingMessage, currentUserMessage,
                   audioPlayerRef, starting, receivers, crashed, discStage, recPending, randoms,
                   expected, webVars, apartVars, reactVars,
                   nInputs, fetching, dateNow>>

\* ---- generic frontend: text messages and file uploads ---------------------
\* Date.now() read again: the millisecond it returned last, or a later one.
Ticks == {t \in {dateNow, dateNow + 1} : t <= MaxInputs}

\* The message object that call n of sendMessage made.
MadeBy(m, n) == [m EXCEPT !.obj = n]

\* sendMessage up to its first await. The input and the send button are
\* enabled with Phi-3 selected only, so the Phi-3 branch is the one taken: the
\* user's message and a "Thinking..." assistant message are set in the map
\* under ids made of Date.now(), the map's values are displayed and the call
\* suspends in fetch.
G_sendMessage ==
    \E now \in Ticks :
        LET n == nInputs + 1
            newMessage == MadeBy(Msg(<<"user", now>>, "user", <<"x">>), n)
            assistantMsg == MadeBy(Msg(<<"assistant", now>>, "assistant", <<"Thinking...">>), n)
        IN /\ G_InputEnabled
           /\ nInputs < MaxInputs
           /\ nInputs' = n
           /\ dateNow' = now
           /\ messageMap' = MapSet(MapSet(messageMap, newMessage), assistantMsg)
           /\ messages' = messageMap'
           /\ fetching' = fetching \cup {<<"assistant", n, now>>}
           /\ UNCHANGED <<commonVars, isConnected, isConnecting, isRecording, webSocketClient,
                          selectedModel, currentConnectingMessage, currentUserMessage,
                          audioPlayerRef, audioRecorderRef, starting, receivers, crashed,
                          discStage, recPending, stopPending, randoms, expected, webVars, apartVars,
                          reactVars>>

\* sendMessage resumed: the Phi-3 stream was read to its end; the answer
\* replaced the content of the call's assistant message object, which shows
\* if the object is still the one in the map, and the map's values are
\* displayed.
G_Phi3Answered(id) ==
    /\ id \in fetching /\ id[1] = "assistant"
    /\ fetching' = fetching \ {id}
    /\ messageMap' = [i \in DOMAIN messageMap |->
                        IF messageMap[i].id = <<"assistant", id[3]>> /\ messageMap[i].obj = id[2]
                        THEN [messageMap[i] EXCEPT !.content = <<"answer">>]
                        ELSE messageMap[i]]
    /\ messages' = messageMap'
    /\ UNCHANGED <<commonVars, isConnected, isConnecting, isRecording, webSocketClient,
                   selectedModel, currentConnectingMessage, currentUserMessage,
                   audioPlayerRef, audioRecorderRef, starting, receivers, crashed, discStage,
                   recPending, stopPending, randoms, expected, webVars, apartVars, reactVars, nInputs,
                   dateNow>>

\* handleFileUpload up to its await: with Phi-3 selected the file is posted.
G_handleFileUpload ==
    /\ selectedModel = "phi3"
    /\ nInputs < MaxInputs
    /\ nInputs' = nInputs + 1
    /\ fetching' = fetching \cup {<<"upload", nInputs + 1, 0>>}
    /\ UNCHANGED <<commonVars, uiVars, webSocketClient, selectedModel, messageMap,
                   currentConnectingMessage, currentUserMessage, audioPlayerRef,
                   audioRecorderRef, starting, receivers, crashed, discStage, recPending,
                   stopPending, randoms, expected, webVars, apartVars, reactVars, dateNow>>

\* handleFileUpload resumed: the upload's response goes behind the messages
\* displayed, under an id made of Date.now(); the map is not told.
G_Uploaded(id) ==
    /\ id \in fetching /\ id[1] = "upload"
    /\ fetching' = fetching \ {id}
    /\ \E now \in Ticks :
         /\ dateNow' = now
         /\ messages' = Append(messages, Msg(<<"upload", now>>, "assistant", <<"uploaded">>))
    /\ UNCHANGED <<commonVars, isConnected, isConnecting, isRecording, webSocketClient,
                   selectedModel, messageMap, currentConnectingMessage, currentUserMessage,
                   audioPlayerRef, audioRecorderRef, starting, receivers, crashed, discStage,
                   recPending, stopPending, randoms, expected, webVars, apartVars, reactVars, nInputs>>

\* The catch of sendMessage and of handleFileUpload: the fetch failed.
G_FetchFailed(id) ==
    /\ id \in fetching
    /\ fetching' = fetching \ {id}
    /\ UNCHANGED <<commonVars, uiVars, webSocketClient, selectedModel, messageMap,
                   currentConnectingMessage, currentUserMessage, audioPlayerRef,
                   audioRecorderRef, starting, receivers, crashed, discStage, recPending,
                   stopPending, randoms, expected, webVars, apartVars, reactVars, nInputs, dateNow>>

\* The fetches of the inputs: kind, number of the input, Date.now() in the id
\* of the assistant message (0 for an upload).
FetchIds == {"assistant", "upload"} \X (1..MaxInputs) \X (0..MaxInputs)

\* ---- generic frontend: the Phi-3 stream --------------------------------------
\* Text is a sequence of characters.
DataPrefix == <<"d", "a", "t", "a", ":">>
Placeholder == <<"Thinking...">>
Payloads == {"x", "y"}

\* A data: line with its payload: "data: x", and "data:y" without the space.
DataLine(payload) == DataPrefix \o (IF payload = "x" THEN <<" ">> ELSE <<>>) \o <<payload>>

\* The lines of an event, each ended by a line break.
RECURSIVE EventText(_)
EventText(event) ==
    IF event = <<>> THEN <<>> ELSE DataLine(Head(event)) \o <<"\n">> \o EventText(Tail(event))

\* The text of a response: every event is ended by a blank line, the last one
\* only when the response is terminated; an event that is not is cut off
\* behind its last line.
RECURSIVE ResponseText(_, _)
ResponseText(evs, terminated) ==
    IF evs = <<>> THEN <<>>
    ELSE IF Len(evs) = 1 /\ ~terminated
    THEN SubSeq(EventText(evs[1]), 1, Len(EventText(evs[1])) - 1)
    ELSE EventText(Head(evs)) \o <<"\n">> \o ResponseText(Tail(evs), terminated)

\* The events a response is made of: one or two data: lines each.
Events == { <<p>> : p \in Payloads } \cup { <<"x", "y">> }
EventLists == UNION { [1..n -> Events] : n \in 1..MaxEvents }

\* The payloads of all data: lines of the events, in order.
RECURSIVE AllPayloads(_)
AllPayloads(evs) == IF evs = <<>> THEN <<>> ELSE Head(evs) \o AllPayloads(Tail(evs))

\* text.split(sep) for a separator of one or two line breaks.
RECURSIVE split(_, _)
split(text, sep) ==
    LET n == Len(sep)
        hits == { i \in 1..(Len(text) - n + 1) : SubSeq(text, i, i + n - 1) = sep }
    IN IF hits = {} THEN <<text>>
       ELSE LET i == CHOOSE h \in hits : \A g \in hits : h <= g
            IN <<SubSeq(text, 1, i - 1)>> \o split(SubSeq(text, i + n, Len(text)), sep)

\* text.startsWith("data:")
startsWithData(text) == Len(text) >= 5 /\ SubSeq(text, 1, 5) = DataPrefix

\* text.trim() is empty
Blank(text) == \A i \in DOMAIN text : text[i] \in {" ", "\n"}

\* text.match(/^data:\s?(.*)$/) for a text that starts with "data:": the group, or
\* "nomatch"; the dot does not match a line break and $ only the end of the text.
match(text) ==
    LET r == SubSeq(text, 6, Len(text))
        g == IF r # <<>> /\ r[1] \in {" ", "\n"} THEN Tail(r) ELSE r
    IN IF \E i \in DOMAIN g : g[i] = "\n" THEN "nomatch" ELSE g

\* The inner loops of sendMessage: the chunks of the data: lines of the parts
\* go behind the content.
RECURSIVE appendLines(_, _)
appendLines(c, lines) ==
    IF lines = <<>> THEN c
    ELSE LET line == Head(lines)
             c1 == IF startsWithData(line) /\ match(line) # "nomatch" THEN c \o match(line) ELSE c
         IN appendLines(c1, Tail(lines))

RECURSIVE appendParts(_, _)
appendParts(c, parts) ==
    IF parts = <<>> THEN c
    ELSE LET part == Head(parts)
             c1 == IF Blank(part) THEN c ELSE appendLines(c, split(part, <<"\n">>))
         IN appendParts(c1, Tail(parts))

\* What is displayed of content c after the loop of sendMessage: no
\* setMessages follows the loop, what was displayed last stays.
afterLoop(c) == shown

\* One iteration of the while loop of sendMessage: the reader returns text
\* (any amount of what is unread), whole events are split off the buffer and
\* their payloads appended, the first of them replacing the placeholder, and
\* the messages are displayed.
StreamRead ==
    /\ phase = "reading"
    /\ \E k \in 1..Len(unread) :
         LET all == split(streamBuffer \o SubSeq(unread, 1, k), <<"\n", "\n">>)
             parts == SubSeq(all, 1, Len(all) - 1)
             reset == firstChunk /\ Len(parts) > 0
             c == appendParts(IF reset THEN <<>> ELSE msgContent, parts)
         IN /\ unread' = SubSeq(unread, k + 1, Len(unread))
            /\ streamBuffer' = all[Len(all)]
            /\ firstChunk' = (firstChunk /\ ~reset)
            /\ msgContent' = c
            /\ shown' = c
    /\ UNCHANGED <<commonVars, webVars, uiVars, reactVars, genericVars, playerVars, sendVars, formVars, events, phase>>

\* The reader reports the end of the response: the loop is left and a data:
\* line left in the buffer is appended to the content.
StreamDone ==
    /\ phase = "reading"
    /\ unread = <<>>
    /\ phase' = "ended"
    /\ msgContent' = IF startsWithData(streamBuffer) /\ match(streamBuffer) # "nomatch"
                     THEN msgContent \o match(streamBuffer) ELSE msgContent
    /\ shown' = afterLoop(msgContent')
    /\ UNCHANGED <<commonVars, webVars, uiVars, reactVars, genericVars, playerVars, sendVars, formVars, events, unread,
                   streamBuffer, firstChunk>>

\* sendMessage with its "Thinking..." message displayed and the response of
\* /phi3-stream about to be read.
InitStream ==
    /\ InitCommon /\ InitWebVars /\ InitUiVars /\ InitReactVars /\ InitGenericVars
    /\ InitPlayerVars /\ InitSendVars /\ InitFormVars
    /\ \E evs \in EventLists, terminated \in BOOLEAN :
         /\ events = evs
         /\ unread = ResponseText(evs, terminated)
    /\ streamBuffer = <<>>
    /\ firstChunk = TRUE
    /\ msgContent = Placeholder
    /\ shown = Placeholder
    /\ phase = "reading"

NextStream == StreamRead \/ StreamDone

SpecStream == InitStream /\ [][NextStream]_vars

\* ---- generic frontend: specification ---------------------------------------
InitGeneric == InitCommon /\ InitWebVars /\ InitUiVars /\ InitReactVars /\ InitGenericVars
                      /\ InitPlayerVars /\ InitStreamVars /\ InitSendVars /\ InitFormVars

NextGeneric ==
    \/ G_ConnectClick
    \/ G_LoopStart
    \/ \E st \in DiscStages : G_DisconnectToggled(st)
    \/ G_DisconnectCleared
    \/ G_DisconnectClosed
    \/ \E m \in {"azure", "phi3"} : G_SelectModel(m)
    \/ \E c \in ClientIds : G_ServerClose(c)
    \/ \E c \in ClientIds, f \in GenericFrames : G_HandleFrame(c, f)
    \/ \E c \in ClientIds, f \in GenericFrames : G_FrameUnread(c, f)
    \/ G_RecordClick
    \/ G_RecStarted
    \/ G_RecFailed
    \/ G_RecStopped

SpecGeneric == InitGeneric /\ [][NextGeneric]_vars

\* ---- generic frontend, inbound frames: specification ---------------------
\* The sessions in which the microphone is left alone: connect, disconnect,
\* the model selection and the frames of the server.
InitFrames == InitGeneric

NextFrames ==
    \/ G_ConnectClick
    \/ G_LoopStart
    \/ G_DisconnectCleared
    \/ G_DisconnectClosed
    \/ \E m \in {"azure", "phi3"} : G_SelectModel(m)
    \/ \E c \in ClientIds : G_ServerClose(c)
    \/ \E c \in ClientIds, f \in GenericFrames : G_HandleFrame(c, f)
    \/ \E c \in ClientIds, f \in GenericFrames : G_FrameUnread(c, f)

SpecFrames == InitFrames /\ [][NextFrames]_vars

\* ---- generic frontend, receive loops: specification -----------------------
\* The sessions in which a connect may follow while the receive loop of an
\* earlier connect is still suspended in initAudioPlayer: up to MaxLoops
\* clients, and up to MaxLoops handler calls suspended at a time.
InitLoops == InitGeneric

\* The frames of these sessions: the greeting and audio.
LoopFrames == {f \in GenericFrames : f.type = "binary" \/ f.arg = "connected+greeting"}

L_ConnectClick ==
    /\ \E endpoint \in Endpoints : G_ConnectButtonEnabled(endpoint)
    /\ G_handleConnectUpTo(MaxLoops, MaxLoops)
    /\ UNCHANGED <<loop, sent, nFrames, handled, errors, realtimeStreaming, sawFunctionCall,
                   isConnecting, isRecording, selectedModel, currentUserMessage, receivers,
                   crashed, recPending, stopPending, randoms, webVars, apartVars, reactVars,
                   nInputs, fetching, dateNow>>

NextLoops ==
    \/ L_ConnectClick
    \/ G_LoopStart
    \/ G_DisconnectCleared
    \/ G_DisconnectClosed
    \/ \E m \in {"azure", "phi3"} : G_SelectModel(m)
    \/ \E c \in ClientIds : G_ServerClose(c)
    \/ \E c \in ClientIds, f \in LoopFrames : G_HandleFrame(c, f)

SpecLoops == InitLoops /\ [][NextLoops]_vars

\* ---- generic frontend with Phi-3: specification ------------------------
\* The sessions in which the model stays the one selected at first, Phi-3:
\* connect and disconnect without a transport, text messages over HTTP, file
\* uploads.
InitPhi3 == InitGeneric

NextPhi3 ==
    \/ G_ConnectClick
    \/ G_DisconnectCleared
    \/ G_DisconnectClosed
    \/ G_sendMessage
    \/ \E id \in FetchIds : G_Phi3Answered(id)
    \/ G_handleFileUpload
    \/ \E id \in FetchIds : G_Uploaded(id)
    \/ \E id \in FetchIds : G_FetchFailed(id)

SpecPhi3 == InitPhi3 /\ [][NextPhi3]_vars

\* ---- properties -------------------------------------------------------------

\* C1: for every message id, the content of the conversation message with that
\* id is the concatenation, in arrival order, of the deltas of the delta frames
\* that carried the id, whatever other frames arrived between them.
C1_ContentIsConcatenation ==
    \A id \in ServerIds :
        expected[id] # <<>> =>
            /\ Has(messageMap, id)
            /\ Get(messageMap, id).content = expected[id]

\* The web sample's frame history: the frame handled last, a response.done
\* frame, a step that handles a frame, the continuation frame.
Last(q) == q[Len(q)]
IsDone(f) == f.type = "response.done"
FrameStep == nFrames' = nFrames + 1
Continuation == OutFrame(realtimeStreaming, "response.create")

\* C2: when a response.done frame is handled while the pending-function-call
\* flag is set, exactly one response.create frame is sent and the flag is
\* cleared.
C2_ContinuationSent ==
    [][ (FrameStep /\ IsDone(Last(handled')) /\ sawFunctionCall)
        => (sent' = Append(sent, Continuation) /\ ~sawFunctionCall') ]_vars

\* A function_call item then response.done were handled: the continuation is
\* the frame sent last and the flag is clear.
C2_Witness ==
    /\ Len(handled) = 2
    /\ handled[1] = [type |-> "response.output_item.done", arg |-> "function_call"]
    /\ IsDone(handled[2])
    /\ sent # <<>> /\ Last(sent).type = "response.create"
    /\ ~sawFunctionCall

\* C3: handling a response.done frame while the flag is clear sends nothing
\* and leaves the flag clear; a response.done frame that directly follows
\* another response.done frame sends nothing.
C3_TurnComplete ==
    [][ /\ (FrameStep /\ IsDone(Last(handled')) /\ ~sawFunctionCall)
           => (sent' = sent /\ ~sawFunctionCall')
        /\ (FrameStep /\ IsDone(Last(handled')) /\ handled # <<>> /\ IsDone(Last(handled)))
           => sent' = sent ]_vars

\* A second consecutive response.done was handled after a continuation went
\* out, and the continuation is still the frame sent last.
C3_Witness ==
    /\ nFrames = 3
    /\ Len(handled) = 2 /\ IsDone(handled[1]) /\ IsDone(handled[2])
    /\ sent # <<>> /\ Last(sent).type = "response.create"
    /\ Cardinality({i \in DOMAIN sent : sent[i].type = "response.create"}) = 1
    /\ ~sawFunctionCall

\* C5 (as claimed): frames are handled one at a time: any handleFunctionCall
\* still suspended in its tool invocation was started by the frame handled
\* last, so no later frame is handled before it has finished.
C5_OneAtATime == \A n \in fcTasks : n = nFrames

\* C10 (as claimed): once the receive loop has ended after a stop (the form is
\* ready to start again), recording is inactive.
C10_StoppedNotRecording ==
    (inputState = "ReadyToStart" /\ \E c \in ClientIds : loop[c] = "done") => ~recordingActive

\* The frame handled last is a transcript delta, the transcript done frame.
IsTranscriptDelta(f) == f.type = "response.audio_transcript.delta"
IsTranscriptDone(f) == f.type = "response.audio_transcript.done"

\* C11 (as claimed): once the transcript done frame of a message has been
\* handled, a transcript delta that follows it is not applied: the displayed
\* text blocks stay what they were when the done frame was handled.
C11_DeltaAfterDoneNotApplied ==
    [][ (FrameStep /\ handled # <<>> /\ IsTranscriptDone(Last(handled))
                   /\ IsTranscriptDelta(Last(handled')))
        => children' = children ]_vars

\* The positions of the assistant messages of the React conversation.
AssistantMessages == {i \in DOMAIN messages : messages[i].type = "assistant"}

\* C12 (as claimed): a transcript done frame for a message that is already
\* complete appends nothing. Every transcript done frame of the model is the
\* done frame of the same response item (its transcript is "transcript"), so
\* the conversation never holds two assistant messages.
C12_DoneTwiceAppendsOnce == Cardinality(AssistantMessages) <= 1

\* A frame of a type the samples do not know.
IsUnknown(f) == f.type = "rate_limits.updated"

\* C13: handling a frame of an unknown type changes no session state (text
\* blocks, pending-function-call flag, playback, recording, form state,
\* clients), sends nothing, raises nothing and leaves the receive loop
\* running: only the count and the history of the frames handled move.
C13_UnknownFrameIgnored ==
    [][ (FrameStep /\ IsUnknown(Last(handled')))
        => UNCHANGED <<clients, loop, sent, errors, realtimeStreaming, sawFunctionCall,
                       playQueue, webVars>> ]_vars

\* An unknown frame was handled after a transcript delta: the text is still
\* there, nothing was raised and the loop is waiting for the next frame.
C13_Witness ==
    /\ Len(handled) = 2
    /\ IsTranscriptDelta(handled[1]) /\ IsUnknown(handled[2])
    /\ children = <<P(<<"a">>)>>
    /\ errors = {}
    /\ \E c \in ClientIds : clients[c] = "open" /\ loop[c] = "waiting"

\* C14 (as claimed): an out-of-order frame is ignored: a user-transcription
\* frame handled before any speech-started frame raises nothing and does not
\* end the receive loop.
C14_OutOfOrderIgnored ==
    /\ "TypeError" \notin errors
    /\ \A c \in ClientIds : loop[c] # "crashed"

\* A step that can still move the form out of "Working" exists for client c:
\* its config message is on its way (it goes out or fails), or its session is
\* open with the receive loop waiting for session.created.
AttemptInProgress(c) ==
    \/ clients[c] = "connecting"
    \/ clients[c] = "open" /\ loop[c] = "waiting"

\* C15 (as claimed): no state leaves both the start and the stop button
\* disabled for good: the form is in "Working" (both disabled) only while an
\* attempt is in progress; once the attempt has failed the form is back in
\* "ReadyToStart".
C15_FailedStartReady ==
    inputState = "Working" => \E c \in ClientIds : AttemptInProgress(c)

\* C16 (as claimed): a request to start recording while recording is already
\* active changes nothing: while the recorder captures, no handleAudioRecord
\* call is acquiring the microphone to start it once more.
C16_StartWhileRecordingNoop == audioRecorderRef = "capturing" => recPending = 0

\* C17 (as claimed): the pending-function-call flag is set exactly when a
\* response.output_item.done frame that carries a function_call item is
\* handled, and stays set until the next response.done frame is handled: the
\* flag is set if and only if such an item was handled and no response.done
\* frame since.
C17_FlagTracksFunctionCall == sawFunctionCall = callPending

\* C18 (as claimed): handling a speech-started frame appends exactly one
\* message of role user to the conversation and leaves every message that
\* was there as it was.
C18_SpeechStartedAddsUserMessage ==
    [][ (FrameStep /\ lastOp' = "speech_started")
        => /\ Len(messages') = Len(messages) + 1
           /\ SubSeq(messages', 1, Len(messages)) = messages
           /\ Last(messages').type = "user" ]_vars

\* The positions in the message map of the messages with this id.
WithId(id) == {i \in DOMAIN messageMap : messageMap[i].id = id}

\* C19: while no receive loop has died, the conversation holds exactly one
\* assistant message for every server id a text_delta frame carried and none
\* for the other ids; the message was created by the first delta for the id
\* (its content starts with that delta), and later deltas created no second
\* message.
C19_OneMessagePerId ==
    crashed = {} =>
        \A id \in ServerIds :
            IF expected[id] = <<>>
            THEN WithId(id) = {}
            ELSE /\ Cardinality(WithId(id)) = 1
                 /\ Get(messageMap, id).type = "assistant"
                 /\ Head(Get(messageMap, id).content) = Head(expected[id])

\* Two deltas for one id and one for another were handled: two assistant
\* messages, the first of them holding both of its deltas.
C19_Witness ==
    /\ crashed = {}
    /\ Len(expected[<<"m", 1>>]) = 2 /\ Len(expected[<<"m", 2>>]) = 1
    /\ Cardinality(WithId(<<"m", 1>>)) = 1 /\ Cardinality(WithId(<<"m", 2>>)) = 1
    /\ Len(Get(messageMap, <<"m", 1>>).content) = 2

\* The ids of the messages of a displayed list; a step that resets the
\* session: a disconnect() that drops the messages, or a connect.
Shown(list) == {list[i].id : i \in DOMAIN list}
SessionReset ==
    \/ discStage'["close"] < discStage["close"]
    \/ ~isConnected /\ isConnected'

\* C20 (as claimed): every message displayed before a step that is no session
\* reset is displayed after it.
C20_MessagesStay == [][ SessionReset \/ Shown(messages) \subseteq Shown(messages') ]_vars

\* A step of sendMessage up to its fetch.
SendMessageStep == \E f \in FetchIds : f[1] = "assistant" /\ f \in fetching' /\ f \notin fetching

\* C21: a message that sendMessage creates gets an id no message of the
\* session has: sendMessage adds its two messages to the map and replaces
\* none.
C21_FreshIds == [][SendMessageStep => Len(messageMap') = Len(messageMap) + 2]_vars

\* C22 (as claimed): when a disconnect() call has returned, nothing records
\* and no chunk is queued for playback.
C22_DisconnectStopsAudio == lastOp = "disconnect()" => (~recorderOn /\ playQueue = <<>>)

\* C23 (as claimed): when starting the recording has failed, the recording
\* flag is false, so that the next toggle starts recording again.
C23_FailedStartReverts == lastOp = "startFailed" => ~isRecording

\* The append-audio frames sent so far.
AppendFrames == { i \in DOMAIN sent : sent[i].type = "input_audio_buffer.append" }

\* A step of the capture path that sends an append-audio frame.
AppendSent == Len(sent') = Len(sent) + 1 /\ sent'[Len(sent')].type = "input_audio_buffer.append"

\* C24: every append-audio frame of the web sample's capture path carries
\* exactly 4800 bytes, and it is sent only when the buffer, with the data just
\* captured, holds 4800 bytes or more: what is left behind is the rest.
C24_FramesOfOneChunk ==
    [][AppendSent =>
          /\ length(sent'[Len(sent')].audio) = ChunkBytes
          /\ \E size \in DataSizes :
               /\ length(buffer) + size >= ChunkBytes
               /\ length(buffer') = length(buffer) + size - ChunkBytes]_vars

\* A frame was sent for data that came in pieces, and a rest is buffered.
C24_Witness ==
    /\ AppendFrames # {}
    /\ \E i \in AppendFrames : length(sent[i].audio) = ChunkBytes
    /\ length(buffer) \in 1..(ChunkBytes - 1)

\* C25 (as claimed): no append-audio frame carries bytes that were captured
\* before the stop that preceded the start of its session: the bytes of a
\* frame were all captured in the session the frame is sent to.
C25_PartialBufferDiscarded ==
    \A i \in AppendFrames : \A k \in DOMAIN sent[i].audio : sent[i].audio[k].of = sent[i].to

\* A step that calls play on the web sample's player.
PlayCalled == Len(playQueue') = Len(playQueue) + 1

\* C26 (as claimed): play is called on a player whose init has completed.
C26_PlayAfterInit == [][PlayCalled => audioPlayer = "ready"]_vars

\* The chunks played first have the sizes of the scenario and none of them
\* found the queue empty.
ScenarioPlayed ==
    /\ Len(scheduled) >= 3
    /\ <<scheduled[1].bytes, scheduled[2].bytes, scheduled[3].bytes>> = <<2400, 2400, 4800>>
    /\ \A i \in 2..3 : scheduled[i].at < scheduled[i - 1].end

\* C27: chunks are scheduled back to back: a chunk starts where the chunk
\* before it ends, or now when the queue was empty by then; the chunks of 2400,
\* 2400 and 4800 bytes take 4800 samples, 200 ms at 24 kHz, from the start of
\* the first to the end of the last.
C27_BackToBack ==
    /\ \A i \in 2..Len(scheduled) :
         scheduled[i].start = IF scheduled[i].at < scheduled[i - 1].end
                              THEN scheduled[i - 1].end ELSE scheduled[i].at
    /\ ScenarioPlayed =>
         /\ scheduled[3].end - scheduled[1].start = 4800
         /\ Millis(scheduled[3].end - scheduled[1].start) = 200

\* The scenario's chunks were played while the device played on.
C27_Witness == ScenarioPlayed /\ scheduled[3].at > scheduled[1].at

\* C28 (as claimed): when the Phi-3 response has ended, the assistant message
\* displays the payloads of all data: lines received, in order, and nothing
\* of the placeholder.
C28_StreamedContent == phase = "ended" => shown = AllPayloads(events)

\* The frames of a type among the first i frames sent.
SentOfType(type, i) == { j \in 1..i : sent[j].type = type }

\* C29 (as claimed): a response.create continuation is sent only after the
\* function_call_output of its call: among the frames sent up to and including
\* a continuation there are as many outputs as continuations.
C29_ContinuationAfterOutput ==
    \A i \in DOMAIN sent :
        sent[i].type = "response.create" =>
            Cardinality(SentOfType("response.create", i))
                <= Cardinality(SentOfType("conversation.item.create", i))

\* The stop handler has run and no start since: the form is ready to start
\* and the handle is the client that was closed.
Stopped ==
    inputState = "ReadyToStart" /\ realtimeStreaming # NULL /\ clients[realtimeStreaming] = "closed"

\* C30 (as claimed): from the stop handler to the next start recordingActive
\* is false, so that the capture path sends no append-audio frame on the
\* closed transport.
C30_StoppedStaysSilent == Stopped => ~recordingActive

\* C31 (as claimed): transcript deltas go to paragraph text blocks only: no
\* separator element holds text.
C31_DeltasInTextBlocks == \A k \in DOMAIN children : children[k].tag = "hr" => children[k].text = <<>>

\* C32 (as claimed): whenever no connect or disconnect call is in progress, the
\* transport handle is non-null exactly when the session is marked connected.
C32_HandleIffConnected ==
    (mounted /\ attempts = {} /\ ~isConnecting /\ disconnecting = 0)
        => ((realtimeStreaming # NULL) <=> isConnected)

\* C33 (as claimed): when the connect/disconnect button's handler ran on a
\* session marked connected and its disconnect() has returned, the session
\* is marked disconnected; and a session marked connected can be
\* disconnected through the handler: the button is enabled and disconnect()
\* finds a handle to close.
C33_ConnectedCanDisconnect ==
    /\ (mounted /\ lastOp = "disconnect()") => ~isConnected
    /\ (mounted /\ isConnected) => (ConnectButtonEnabled /\ realtimeStreaming # NULL)

\* C34 (as claimed): at most one receive loop consumes the frames of a
\* transport client, whatever the interleaving of connect, disconnect and
\* reconnect with the loop's start-up.
C34_OneLoopPerClient == \A c \in ClientIds : receivers[c] <= 1

\* The frames sent after the session configuration.
MessageFrames == SelectSeq(sent, LAMBDA f : f.type # "session.update")

\* C35 (as claimed): every sendMessage call with text that is not blank and
\* a transport handle appends one user message and sends two frames,
\* conversation.item.create and then response.create: when no call is
\* suspended, the frames sent are one such pair for each user message.
C35_TwoFramesPerMessage ==
    (mounted /\ sendStage.first = 0 /\ sendStage.second = 0) =>
        /\ Len(MessageFrames) = 2 * Len(messages)
        /\ \A i \in DOMAIN MessageFrames :
             MessageFrames[i].type = IF i % 2 = 1 THEN "conversation.item.create"
                                     ELSE "response.create"

\* C36 (as claimed): with Azure OpenAI selected the start handler creates a
\* transport only if both the endpoint and the deployment are filled in: no
\* client is being connected while the form, which is disabled from the click
\* on, has Azure selected and one of the two empty.
C36_AzureNeedsEndpointAndDeployment ==
    (form.azure /\ (form.endpoint = "" \/ form.deploymentOrModel = ""))
        => \A c \in ClientIds : clients[c] # "connecting"

\* The bytes of the append-audio frames sent so far.
RECURSIVE SentBytes(_)
SentBytes(n) ==
    IF n = 0 THEN 0
    ELSE SentBytes(n - 1)
         + (IF sent[n].type = "input_audio_buffer.append" THEN length(sent[n].audio) ELSE 0)

\* C37 (as claimed): the payloads of the append-audio frames, in send order,
\* are a prefix of the bytes captured, in capture order.  The buffer is a
\* queue (combineArray puts new bytes behind, slice cuts chunks off the
\* front), so the chunk that a step sends is the captured bytes just before
\* the ones the step leaves buffered: it continues the payloads sent before
\* exactly when it starts at the offset that is their length.
C37_SentIsPrefixOfCaptured ==
    [][AppendSent =>
          captured' - length(buffer') - ChunkBytes = SentBytes(Len(sent))]_vars

\* C38 (as claimed): after every call of processAudioRecordingBuffer the
\* buffer holds fewer bytes than a chunk.
C38_LessThanAChunkBuffered == length(buffer) < ChunkBytes

\* C4: no audio chunk that arrived before a speech-started frame handled while
\* playback was active is still queued for playback after that frame: every
\* queued chunk arrived after it.
C4_BargeInClearsQueue == \A i \in DOMAIN playQueue : playQueue[i] # "early"

\* C6 (as claimed): disconnect() stops recording before it closes the
\* transport: while a disconnect() is suspended in close(), nothing records.
C6_RecordingStoppedFirst == disconnecting > 0 => ~recorderOn

\* C7: when a disconnect() call has returned, the transport handle is null
\* and no error was raised, also when it is the second call in a row.
C7_DisconnectTwice == lastOp = "disconnect()" => (realtimeStreaming = NULL /\ errors = {})

\* Two disconnect() calls in a row have returned.
C7_Witness == lastOp = "disconnect()" /\ consecDisc = 2 /\ realtimeStreaming = NULL

\* handleConnect ran while the session was marked connected.
ConnectWhileConnected ==
    /\ isConnected /\ mounted /\ mounted'
    /\ lastOp' \in {"disconnect", "disconnect()"}
    /\ disconnecting' >= disconnecting

====
